---------------------------- MODULE Spec2Model ----------------------------
(***************************************************************************)
(* Model of the document classification and structured-extraction         *)
(* pipeline of Document_Extraction_Agent (backend/main.py,                *)
(* backend/helpers/openai_mapper.py, backend/helpers/document_intel.py).  *)
(*                                                                         *)
(* Python str values are TLA+ strings (TLC evaluates Len, SubSeq and \o   *)
(* on them), so substring tests, lower-casing and separator removal are   *)
(* computed character by character as the code computes them.             *)
(***************************************************************************)
EXTENDS Integers, Sequences, FiniteSets, TLC

VARIABLES
    filename,         \* detect_document_type: argument filename
    text,             \* detect_document_type, normalize_text: argument text
    all_files,        \* detect_document_type: argument all_files (None or a list)
    label,            \* detect_document_type: the returned label
    arg_doc_type,     \* normalize_text: argument doc_type
    arg_confidence,   \* normalize_text: argument confidence
    call_outcome,     \* normalize_text: what the model call does
    parsed_json,      \* _safe_parse_json: the returned value
    normalized,       \* normalize_text: the returned record
    model_calls,      \* the calls made to the model, in order
    uploaded_files,   \* main.py: the uploaded batch (file names)
    results_summary,  \* main.py: one entry per processed document
    generated_jsons,  \* main.py: json_name -> the generated output
    history,          \* per processed document: its text, records and calls
    tree,             \* _clean_empty_fields: argument obj
    stripped,         \* _clean_empty_fields: the returned value
    stripped_twice,   \* _clean_empty_fields applied to its own result
    odo_result,       \* _extract_odometer_and_trip_values: the returned dict
    license_json,     \* refine_license_fields: argument json_data
    refine_outcome,   \* refine_license_fields: what the model call does
    refine_result,    \* refine_license_fields: what the call yields
    pc                \* position of the run: "call" | "done" | "loop" | "finished"

vars == <<filename, text, all_files, label, arg_doc_type, arg_confidence,
          call_outcome, parsed_json, normalized, model_calls, uploaded_files,
          results_summary, generated_jsons, history, tree, stripped,
          stripped_twice, odo_result, license_json, refine_outcome,
          refine_result, pc>>
classify_vars == <<filename, all_files, label>>
structure_vars ==
    <<arg_doc_type, arg_confidence, call_outcome, parsed_json, normalized>>
pipeline_vars == <<uploaded_files, results_summary, generated_jsons, history>>
function_vars ==
    <<tree, stripped, stripped_twice, odo_result, license_json, refine_outcome,
      refine_result>>

---------------------------------------------------------------------------
(* Python str primitives                                                   *)

UpperAlpha == "ABCDEFGHIJKLMNOPQRSTUVWXYZ"
LowerAlpha == "abcdefghijklmnopqrstuvwxyz"

\* the upper-case characters and the lower-case character of each
UpperChars == {SubSeq(UpperAlpha, k, k) : k \in 1..Len(UpperAlpha)}
LowerChars == {SubSeq(LowerAlpha, k, k) : k \in 1..Len(LowerAlpha)}
LowerOf ==
    [c \in UpperChars |->
        SubSeq(LowerAlpha,
               CHOOSE k \in 1..Len(UpperAlpha) : SubSeq(UpperAlpha, k, k) = c,
               CHOOSE k \in 1..Len(UpperAlpha) : SubSeq(UpperAlpha, k, k) = c)]
\* one character of str.lower()
LowerChar(c) == IF c \in UpperChars THEN LowerOf[c] ELSE c

RECURSIVE Lower(_)
\* str.lower()
Lower(s) ==
    IF Len(s) = 0 THEN ""
    ELSE LowerChar(SubSeq(s, 1, 1)) \o Lower(SubSeq(s, 2, Len(s)))

RECURSIVE Remove(_, _)
\* str.replace(ch, "") for a one-character ch
Remove(s, ch) ==
    IF Len(s) = 0 THEN ""
    ELSE IF SubSeq(s, 1, 1) = ch THEN Remove(SubSeq(s, 2, Len(s)), ch)
         ELSE SubSeq(s, 1, 1) \o Remove(SubSeq(s, 2, Len(s)), ch)

\* k in s
Contains(s, k) ==
    \E p \in 1..(Len(s) - Len(k) + 1) : SubSeq(s, p, p + Len(k) - 1) = k

\* any(k in s for k in kws)
AnyIn(s, kws) == \E j \in 1..Len(kws) : Contains(s, kws[j])

---------------------------------------------------------------------------
(* detect_document_type: keyword lists                                     *)

residence_name_keywords ==
    <<"por", "proofres", "residenceproof", "addressproof", "utilitybill",
      "lease", "proofresidence">>
income_name_keywords ==
    <<"poi", "proofincome", "incomeproof", "incomecertificate", "paystub",
      "salaryslip", "ssa", "wages", "earnings", "income">>
title_name_keywords ==
    <<"title", "certificateoftitle", "vehicletitle", "ownershiptitle">>
insurance_name_keywords ==
    <<"insurance", "policy", "plan", "coverage", "cobra">>
license_name_keywords == <<"dl", "driverlicense", "driver">>
license_sibling_keywords == <<"driverlicense", "dl", "driver">>
registration_name_keywords == <<"reg", "registration">>
odometer_name_keywords == <<"odo", "odometer", "mileage">>
reference_name_keywords ==
    <<"reference", "references", "ref", "personalref", "characterref",
      "employerref">>

front_text_keywords ==
    <<"date of birth", "dob", "sex", "height", "weight", "eye", "class",
      "address", "expiration", "issue date">>
back_text_keywords ==
    <<"dmv", "barcode", "organ donor", "address change", "endorsement",
      "back", "restrictions">>
title_text_keywords ==
    <<"certificate of title", "vehicle title", "title and identification",
      "lienholder", "ownership", "odometer reading">>
income_text_keywords ==
    <<"pay period", "net income", "gross income", "employer", "employee",
      "earnings", "pay date", "compensation", "deductions",
      "social security", "ssa">>
income_residence_text_keywords ==
    <<"address", "lease agreement", "residence", "utility service",
      "proof of residence", "proof of address", "water bill", "gas bill">>
residence_text_keywords ==
    <<"utility", "lease", "resident", "residence", "tenant",
      "service address", "payment due", "bill to", "provider", "amount due",
      "proof of residence", "proof of address">>
insurance_text_keywords ==
    <<"policy", "premium", "plan", "coverage", "expiration date",
      "effective date">>
reference_text_keywords ==
    <<"reference", "personal reference", "character reference",
      "employer reference", "contact person", "emergency contact",
      "reference name", "referee", "guarantor">>

---------------------------------------------------------------------------
(* detect_document_type                                                    *)

\* all_files is None or a list of file names
NoneFiles == [isNone |-> TRUE, v |-> <<>>]
ListOf(fs) == [isNone |-> FALSE, v |-> fs]

\* name = filename.lower().replace("_", "").replace("-", "").replace(" ", "")
NormalizeName(f) == Remove(Remove(Remove(Lower(f), "_"), "-"), " ")

\* sum(1 for f in all_files if any(k in f.lower() for k in [...]))
dl_count(files) ==
    Cardinality({j \in 1..Len(files) :
                    AnyIn(Lower(files[j]), license_sibling_keywords)})

\* the driver-license filename branch with its default side dropped
LicenseBranchNoDefault(name, text_lower, files) ==
    IF Contains(name, "front") THEN "DriverLicense - Front Side"
    ELSE IF Contains(name, "back") THEN "DriverLicense - Back Side"
    ELSE IF (~files.isNone /\ Len(files.v) > 0) /\ dl_count(files.v) = 1
         THEN IF AnyIn(text_lower, front_text_keywords)
              THEN "DriverLicense - Front Side"
              ELSE IF AnyIn(text_lower, back_text_keywords)
                   THEN "DriverLicense - Back Side"
                   ELSE "DriverLicense"
         ELSE "DriverLicense"
\* the body of the driver-license filename branch
LicenseBranch(name, text_lower, files) ==
    IF Contains(name, "front") THEN "DriverLicense - Front Side"
    ELSE IF Contains(name, "back") THEN "DriverLicense - Back Side"
    ELSE IF (~files.isNone /\ Len(files.v) > 0) /\ dl_count(files.v) = 1
         THEN IF AnyIn(text_lower, front_text_keywords)
              THEN "DriverLicense - Front Side"
              ELSE IF AnyIn(text_lower, back_text_keywords)
                   THEN "DriverLicense - Back Side"
                   ELSE "DriverLicense - Front Side"
         ELSE "DriverLicense"

\* the label a document gets when neither stage matches
DefaultLabelMissing == "None"
DefaultLabel == "Generic"

\* the text stage with the income test returning before the residence test
TextStageIncomeFirst(text_lower) ==
    IF Contains(text_lower, "driver") /\ Contains(text_lower, "license")
    THEN IF Contains(text_lower, "back") THEN "DriverLicense - Back Side"
         ELSE IF Contains(text_lower, "front")
              THEN "DriverLicense - Front Side"
              ELSE "DriverLicense"
    ELSE IF AnyIn(text_lower, title_text_keywords) THEN "Title"
    ELSE IF AnyIn(text_lower, income_text_keywords) THEN "ProofOfIncome"
    ELSE IF AnyIn(text_lower, residence_text_keywords) THEN "ProofOfResidence"
    ELSE IF AnyIn(text_lower, insurance_text_keywords) THEN "Insurance"
    ELSE IF Contains(text_lower, "registration") THEN "Registration"
    ELSE IF Contains(text_lower, "odometer") \/ Contains(text_lower, "mileage")
         THEN "Odometer"
    ELSE IF AnyIn(text_lower, reference_text_keywords) THEN "References"
    ELSE DefaultLabel
\* the text-based fallback and the final default
TextStage(text_lower) ==
    IF Contains(text_lower, "driver") /\ Contains(text_lower, "license")
    THEN IF Contains(text_lower, "back") THEN "DriverLicense - Back Side"
         ELSE IF Contains(text_lower, "front")
              THEN "DriverLicense - Front Side"
              ELSE "DriverLicense"
    ELSE IF AnyIn(text_lower, title_text_keywords) THEN "Title"
    ELSE IF AnyIn(text_lower, income_text_keywords)
         THEN IF AnyIn(text_lower, income_residence_text_keywords)
              THEN "ProofOfResidence"
              ELSE "ProofOfIncome"
    ELSE IF AnyIn(text_lower, residence_text_keywords) THEN "ProofOfResidence"
    ELSE IF AnyIn(text_lower, insurance_text_keywords) THEN "Insurance"
    ELSE IF Contains(text_lower, "registration") THEN "Registration"
    ELSE IF Contains(text_lower, "odometer") \/ Contains(text_lower, "mileage")
         THEN "Odometer"
    ELSE IF AnyIn(text_lower, reference_text_keywords) THEN "References"
    ELSE DefaultLabel

\* detect_document_type with the insurance test moved before the title test
detect_document_type_insurance_first(f, t, files) ==
    LET name == NormalizeName(f)
        text_lower == Lower(t)
    IN  IF AnyIn(name, residence_name_keywords) THEN "ProofOfResidence"
        ELSE IF AnyIn(name, income_name_keywords) THEN "ProofOfIncome"
        ELSE IF AnyIn(name, insurance_name_keywords) THEN "Insurance"
        ELSE IF AnyIn(name, title_name_keywords) THEN "Title"
        ELSE IF AnyIn(name, license_name_keywords)
             THEN LicenseBranch(name, text_lower, files)
        ELSE IF AnyIn(name, registration_name_keywords) THEN "Registration"
        ELSE IF AnyIn(name, odometer_name_keywords) THEN "Odometer"
        ELSE IF AnyIn(name, reference_name_keywords) THEN "References"
        ELSE TextStage(text_lower)
\* detect_document_type with the text stage consulted before the reference
\* filename keywords
detect_document_type_text_early(f, t, files) ==
    LET name == NormalizeName(f)
        text_lower == Lower(t)
    IN  IF AnyIn(name, residence_name_keywords) THEN "ProofOfResidence"
        ELSE IF AnyIn(name, income_name_keywords) THEN "ProofOfIncome"
        ELSE IF AnyIn(name, title_name_keywords) THEN "Title"
        ELSE IF AnyIn(name, insurance_name_keywords) THEN "Insurance"
        ELSE IF AnyIn(name, license_name_keywords)
             THEN LicenseBranch(name, text_lower, files)
        ELSE IF AnyIn(name, registration_name_keywords) THEN "Registration"
        ELSE IF AnyIn(name, odometer_name_keywords) THEN "Odometer"
        ELSE IF TextStage(text_lower) # DefaultLabel THEN TextStage(text_lower)
        ELSE IF AnyIn(name, reference_name_keywords) THEN "References"
        ELSE DefaultLabel
detect_document_type(f, t, files) ==
    LET name == NormalizeName(f)
        text_lower == Lower(t)
    IN  IF AnyIn(name, residence_name_keywords) THEN "ProofOfResidence"
        ELSE IF AnyIn(name, income_name_keywords) THEN "ProofOfIncome"
        ELSE IF AnyIn(name, title_name_keywords) THEN "Title"
        ELSE IF AnyIn(name, insurance_name_keywords) THEN "Insurance"
        ELSE IF AnyIn(name, license_name_keywords)
             THEN LicenseBranch(name, text_lower, files)
        ELSE IF AnyIn(name, registration_name_keywords) THEN "Registration"
        ELSE IF AnyIn(name, odometer_name_keywords) THEN "Odometer"
        ELSE IF AnyIn(name, reference_name_keywords) THEN "References"
        ELSE TextStage(text_lower)

---------------------------------------------------------------------------
(* Python values: None, bool, int/float (kept as the decimal lexeme), str, *)
(* list and dict, each tagged with its type                                *)

PyNone == [t |-> "null"]
PyBool(b) == [t |-> "bool", v |-> b]
PyNum(lexeme) == [t |-> "num", v |-> lexeme]
PyStr(s) == [t |-> "str", v |-> s]
PyList(items) == [t |-> "list", v |-> items]
PyDict(f) == [t |-> "dict", v |-> f]
EmptyDict == PyDict(<<>>)

IsDict(x) == x.t = "dict"
HasKey(d, k) == k \in DOMAIN d.v
\* d[k] = val
SetKey(d, k, val) ==
    PyDict([j \in (DOMAIN d.v) \cup {k} |-> IF j = k THEN val ELSE d.v[j]])
\* d.get(k, default)
GetKey(d, k, default) == IF HasKey(d, k) THEN d.v[k] ELSE default
\* type(x).__name__
TypeName(x) ==
    CASE x.t = "null" -> "NoneType"
      [] x.t = "bool" -> "bool"
      [] x.t = "num" -> IF Contains(x.v, ".") THEN "float" ELSE "int"
      [] x.t = "str" -> "str"
      [] x.t = "list" -> "list"
      [] x.t = "dict" -> "dict"

---------------------------------------------------------------------------
(* str.strip, str.split and json.loads                                     *)

Whitespace == {" ", "\n", "\t", "\r"}
Digits == {"0", "1", "2", "3", "4", "5", "6", "7", "8", "9"}

\* the character of s at position p (1-based), "" past the end
Ch(s, p) == IF p >= 1 /\ p <= Len(s) THEN SubSeq(s, p, p) ELSE ""
\* whether s holds k at position p
At(s, p, k) == p + Len(k) - 1 <= Len(s) /\ SubSeq(s, p, p + Len(k) - 1) = k

RECURSIVE LStrip(_)
LStrip(s) ==
    IF Len(s) > 0 /\ Ch(s, 1) \in Whitespace
    THEN LStrip(SubSeq(s, 2, Len(s))) ELSE s
RECURSIVE RStrip(_)
RStrip(s) ==
    IF Len(s) > 0 /\ Ch(s, Len(s)) \in Whitespace
    THEN RStrip(SubSeq(s, 1, Len(s) - 1)) ELSE s
\* str.strip()
Strip(s) == RStrip(LStrip(s))

RECURSIVE Split(_, _)
\* s.split(sep): the pieces between the separators found scanning from the
\* left
Split(s, sep) ==
    IF Contains(s, sep)
    THEN LET p == CHOOSE p \in 1..Len(s) :
                    At(s, p, sep) /\ \A q \in 1..(p - 1) : ~At(s, q, sep)
         IN  <<SubSeq(s, 1, p - 1)>> \o Split(SubSeq(s, p + Len(sep), Len(s)), sep)
    ELSE <<s>>
\* s.split(sep)[-1]
SplitLast(s, sep) == Split(s, sep)[Len(Split(s, sep))]

\* the Markdown code fence; a backquote cannot be written in a TLA+ string,
\* so the model writes the character ^ for it
Fence == "^^^"

\* json.loads: a recursive-descent parser of JSON text without string
\* escapes or exponents; a result is [ok, v, p] with p the position after
\* the value
ParseFail == [ok |-> FALSE, v |-> PyNone, p |-> 0]
ParseOk(val, p) == [ok |-> TRUE, v |-> val, p |-> p]

RECURSIVE SkipWs(_, _)
SkipWs(s, p) == IF Ch(s, p) \in Whitespace THEN SkipWs(s, p + 1) ELSE p
RECURSIVE SkipDigits(_, _)
SkipDigits(s, p) == IF Ch(s, p) \in Digits THEN SkipDigits(s, p + 1) ELSE p

ParseString(s, p) ==
    IF Ch(s, p) # "\"" \/ ~\E q \in (p + 1)..Len(s) : Ch(s, q) = "\""
    THEN ParseFail
    ELSE LET q == CHOOSE q \in (p + 1)..Len(s) :
                    Ch(s, q) = "\"" /\ \A r \in (p + 1)..(q - 1) : Ch(s, r) # "\""
         IN  IF \E r \in (p + 1)..(q - 1) : Ch(s, r) \in {"\n", "\t", "\r"}
             THEN ParseFail
             ELSE ParseOk(PyStr(SubSeq(s, p + 1, q - 1)), q + 1)

ParseNumber(s, p) ==
    LET i0 == IF Ch(s, p) = "-" THEN p + 1 ELSE p
        i1 == IF Ch(s, i0) = "0" THEN i0 + 1 ELSE SkipDigits(s, i0)
        i2 == IF Ch(s, i1) = "." /\ Ch(s, i1 + 1) \in Digits
              THEN SkipDigits(s, i1 + 1) ELSE i1
    IN  IF i1 = i0 THEN ParseFail
        ELSE ParseOk(PyNum(SubSeq(s, p, i2 - 1)), i2)

RECURSIVE ParseValue(_, _)
RECURSIVE ParseMembers(_, _, _)
RECURSIVE ParseElements(_, _, _)

\* the members of an object from position p (at a key), acc the pairs so far
ParseMembers(s, p, acc) ==
    LET key == ParseString(s, p)
    IN  IF ~key.ok THEN ParseFail
        ELSE LET c == SkipWs(s, key.p)
             IN  IF Ch(s, c) # ":" THEN ParseFail
                 ELSE LET val == ParseValue(s, SkipWs(s, c + 1))
                      IN  IF ~val.ok THEN ParseFail
                          ELSE LET e == SkipWs(s, val.p)
                                   d == SetKey(acc, key.v.v, val.v)
                               IN  IF Ch(s, e) = "}" THEN ParseOk(d, e + 1)
                                   ELSE IF Ch(s, e) = ","
                                        THEN ParseMembers(s, SkipWs(s, e + 1), d)
                                        ELSE ParseFail

\* the elements of an array from position p (at a value), acc the items so far
ParseElements(s, p, acc) ==
    LET val == ParseValue(s, p)
    IN  IF ~val.ok THEN ParseFail
        ELSE LET e == SkipWs(s, val.p)
                 l == Append(acc, val.v)
             IN  IF Ch(s, e) = "]" THEN ParseOk(PyList(l), e + 1)
                 ELSE IF Ch(s, e) = ","
                      THEN ParseElements(s, SkipWs(s, e + 1), l)
                      ELSE ParseFail

ParseValue(s, p) ==
    LET c == Ch(s, p)
    IN  IF c = "{"
        THEN LET q == SkipWs(s, p + 1)
             IN  IF Ch(s, q) = "}" THEN ParseOk(EmptyDict, q + 1)
                 ELSE ParseMembers(s, q, EmptyDict)
        ELSE IF c = "["
        THEN LET q == SkipWs(s, p + 1)
             IN  IF Ch(s, q) = "]" THEN ParseOk(PyList(<<>>), q + 1)
                 ELSE ParseElements(s, q, <<>>)
        ELSE IF c = "\"" THEN ParseString(s, p)
        ELSE IF c = "-" \/ c \in Digits THEN ParseNumber(s, p)
        ELSE IF At(s, p, "null") THEN ParseOk(PyNone, p + 4)
        ELSE IF At(s, p, "true") THEN ParseOk(PyBool(TRUE), p + 4)
        ELSE IF At(s, p, "false") THEN ParseOk(PyBool(FALSE), p + 5)
        ELSE ParseFail

\* json.loads(s): [ok |-> FALSE] stands for json.JSONDecodeError
json_loads(s) ==
    LET r == ParseValue(s, SkipWs(s, 1))
    IN  IF r.ok /\ SkipWs(s, r.p) = Len(s) + 1 THEN r ELSE ParseFail


---------------------------------------------------------------------------
(* OpenAIMapper._extract_odometer_and_trip_values: the regular expressions *)
(* are matched as Python's re matches them (leftmost start, greedy         *)
(* quantifiers, backtracking); positions are 1-based, ends exclusive       *)

\* \w
IsWordChar(c) == c \in LowerChars \/ c \in UpperChars \/ c \in Digits \/ c = "_"
\* \b between the characters at p - 1 and p
WordBoundary(s, p) == IsWordChar(Ch(s, p - 1)) # IsWordChar(Ch(s, p))

RECURSIVE RunEnd(_, _, _)
\* the position after the run of characters of set that starts at p
RunEnd(s, p, set) == IF Ch(s, p) \in set THEN RunEnd(s, p + 1, set) ELSE p

RECURSIVE SubRuns(_, _, _)
\* re.sub of every run of at least minlen characters of set by one space
SubRuns(s, set, minlen) ==
    IF Len(s) = 0 THEN ""
    ELSE LET e == RunEnd(s, 1, set)
         IN  IF e - 1 >= minlen
             THEN " " \o SubRuns(SubSeq(s, e, Len(s)), set, minlen)
             ELSE SubSeq(s, 1, 1) \o SubRuns(SubSeq(s, 2, Len(s)), set, minlen)

\* clean = re.sub(r"[,\t]+", " ", text.lower());
\* clean = re.sub(r"\s{2,}", " ", clean).strip()
CleanText(t) == Strip(SubRuns(SubRuns(Lower(t), {",", "\t"}, 1), Whitespace, 2))

\* the end of \d+(?:\.\d+)? matched greedily at p (p holds a digit)
NumEnd(s, p) ==
    LET i1 == SkipDigits(s, p)
    IN  IF Ch(s, i1) = "." /\ Ch(s, i1 + 1) \in Digits
        THEN SkipDigits(s, i1 + 1) ELSE i1

NoMatch == [ok |-> FALSE, start |-> 0, end |-> 0, g |-> ""]
Match(start, end, g) == [ok |-> TRUE, start |-> start, end |-> end, g |-> g]

\* re.search(r"\bkm\b|\bkilometer", clean)
UnitIsKm(s) ==
    \E p \in 1..Len(s) :
        \/ At(s, p, "km") /\ WordBoundary(s, p) /\ WordBoundary(s, p + 2)
        \/ At(s, p, "kilometer") /\ WordBoundary(s, p)

\* (?:trip|tm)\s*[:\-]?\s*(\d+(?:\.\d+)?)\b at p
TripBeforeAt(s, p) ==
    LET k == IF At(s, p, "trip") THEN 4 ELSE IF At(s, p, "tm") THEN 2 ELSE 0
        a == SkipWs(s, p + k)
        b == IF Ch(s, a) \in {":", "-"} THEN a + 1 ELSE a
        c == SkipWs(s, b)
        i1 == SkipDigits(s, c)
        e == NumEnd(s, c)
    IN  IF k = 0 \/ Ch(s, c) \notin Digits THEN NoMatch
        ELSE IF e > i1 /\ WordBoundary(s, e)
             THEN Match(p, e, SubSeq(s, c, e - 1))
             ELSE IF WordBoundary(s, i1)
                  THEN Match(p, i1, SubSeq(s, c, i1 - 1))
                  ELSE NoMatch

\* \b(\d+(?:\.\d+)?)\s*(?:tm|trip)\b at p
TripAfterAt(s, p) ==
    LET e == NumEnd(s, p)
        a == SkipWs(s, e)
        k == IF At(s, a, "tm") THEN 2 ELSE IF At(s, a, "trip") THEN 4 ELSE 0
    IN  IF Ch(s, p) \in Digits /\ WordBoundary(s, p) /\ k > 0
           /\ WordBoundary(s, a + k)
        THEN Match(p, a + k, SubSeq(s, p, e - 1))
        ELSE NoMatch

\* re.search(r"computer|trip\s*[ab]\b|info", snippet)
IsMenuLabel(snippet) ==
    \/ Contains(snippet, "computer")
    \/ \E p \in 1..Len(snippet) :
          /\ At(snippet, p, "trip")
          /\ LET a == SkipWs(snippet, p + 4)
             IN  Ch(snippet, a) \in {"a", "b"} /\ WordBoundary(snippet, a + 1)
    \/ Contains(snippet, "info")

\* (\d+(?:\.\d+)?)\s*(?:mi|mile|km|kilometer)s? at p
MileageAt(s, p) ==
    LET e == NumEnd(s, p)
        a == SkipWs(s, e)
        k == IF At(s, a, "mi") THEN 2
             ELSE IF At(s, a, "km") THEN 2
             ELSE IF At(s, a, "kilometer") THEN 9 ELSE 0
        z == IF Ch(s, a + k) = "s" THEN a + k + 1 ELSE a + k
    IN  IF Ch(s, p) \in Digits /\ k > 0
        THEN Match(p, z, SubSeq(s, p, e - 1))
        ELSE NoMatch

\* the match of one of the three patterns at p
PatternAt(pattern, s, p) ==
    CASE pattern = "trip_before" -> TripBeforeAt(s, p)
      [] pattern = "trip_after" -> TripAfterAt(s, p)
      [] pattern = "mileage" -> MileageAt(s, p)

\* re.search from position p: the match at the leftmost start position
FirstMatchFrom(s, p, pattern) ==
    LET starts == {q \in p..Len(s) : PatternAt(pattern, s, q).ok}
    IN  IF starts = {} THEN NoMatch
        ELSE PatternAt(pattern, s, CHOOSE q \in starts : \A r \in starts : q <= r)

RECURSIVE LastMileageFrom(_, _)
\* list(re.finditer(...))[-1] over the matches that start at p or later
LastMileageFrom(s, p) ==
    LET m == FirstMatchFrom(s, p, "mileage")
    IN  IF ~m.ok THEN NoMatch
        ELSE LET later == LastMileageFrom(s, m.end)
             IN  IF later.ok THEN later ELSE m

RECURSIVE FindNumbers(_, _)
\* re.findall(r"\d+(?:\.\d+)?", clean) from position p
FindNumbers(s, p) ==
    IF p > Len(s) THEN <<>>
    ELSE IF Ch(s, p) \in Digits
         THEN <<SubSeq(s, p, NumEnd(s, p) - 1)>> \o FindNumbers(s, NumEnd(s, p))
         ELSE FindNumbers(s, p + 1)

RECURSIVE RStripChar(_, _)
\* str.rstrip(ch)
RStripChar(s, ch) ==
    IF Len(s) > 0 /\ Ch(s, Len(s)) = ch
    THEN RStripChar(SubSeq(s, 1, Len(s) - 1), ch) ELSE s
DigitValue(c) == CHOOSE d \in 0..9 : SubSeq("0123456789", d + 1, d + 1) = c
RECURSIVE LStripChar(_, _)
LStripChar(s, ch) ==
    IF Len(s) > 0 /\ Ch(s, 1) = ch
    THEN LStripChar(SubSeq(s, 2, Len(s)), ch) ELSE s
RECURSIVE Zeros(_)
Zeros(n) == IF n <= 0 THEN "" ELSE "0" \o Zeros(n - 1)
\* x < y for digit strings of the same length
DigitsLess(x, y) ==
    \E p \in 1..Len(x) :
        /\ DigitValue(Ch(x, p)) < DigitValue(Ch(y, p))
        /\ SubSeq(x, 1, p - 1) = SubSeq(y, 1, p - 1)
IntPart(x) == LStripChar(SubSeq(x, 1, SkipDigits(x, 1) - 1), "0")
FracPart(x) == RStripChar(SubSeq(x, SkipDigits(x, 1) + 1, Len(x)), "0")
\* float(x) < float(y) for decimal lexemes, compared digit by digit
FloatLess(x, y) ==
    LET n == IF Len(FracPart(x)) > Len(FracPart(y))
             THEN Len(FracPart(x)) ELSE Len(FracPart(y))
        fx == FracPart(x) \o Zeros(n - Len(FracPart(x)))
        fy == FracPart(y) \o Zeros(n - Len(FracPart(y)))
    IN  \/ Len(IntPart(x)) < Len(IntPart(y))
        \/ Len(IntPart(x)) = Len(IntPart(y)) /\ DigitsLess(IntPart(x), IntPart(y))
        \/ IntPart(x) = IntPart(y) /\ DigitsLess(fx, fy)
\* max(nums, key=lambda x: float(x)): the first of the largest
MaxByFloat(nums) ==
    LET j == CHOOSE j \in 1..Len(nums) :
                /\ \A k \in 1..Len(nums) : ~FloatLess(nums[j], nums[k])
                /\ \A k \in 1..(j - 1) : FloatLess(nums[k], nums[j])
    IN  nums[j]

\* val.rstrip("0").rstrip(".")
CleanValue(val) == RStripChar(RStripChar(val, "0"), ".")

\* the group of the first trip match, the menu-label filter left out
TripValueOf_unfiltered(clean, trip_match) ==
    IF trip_match.ok THEN trip_match.g ELSE ""

\* the group of the first trip match unless its window holds a menu label
TripValueOf(clean, trip_match) ==
    LET lo == IF trip_match.start - 10 < 1 THEN 1 ELSE trip_match.start - 10
        hi == IF trip_match.end + 9 > Len(clean) THEN Len(clean)
              ELSE trip_match.end + 9
    IN  IF trip_match.ok /\ ~IsMenuLabel(SubSeq(clean, lo, hi))
        THEN trip_match.g ELSE ""
\* trip_match = re.search(before) or re.search(after)
FirstTripMatch(first, clean) ==
    IF first.ok THEN first ELSE FirstMatchFrom(clean, 1, "trip_after")
\* trip_val before the clean-up
trip_val(clean) ==
    TripValueOf(clean, FirstTripMatch(FirstMatchFrom(clean, 1, "trip_before"), clean))

\* the last unit-tagged number, else the largest number, else ""
OdoValueOf(last, nums) ==
    IF last.ok THEN last.g
    ELSE IF Len(nums) > 0 THEN MaxByFloat(nums) ELSE ""
\* odo_val before the clean-up
odo_val(clean) == OdoValueOf(LastMileageFrom(clean, 1), FindNumbers(clean, 1))

\* if val: val = val.rstrip("0").rstrip(".")
CleanIfAny(val) == IF val # "" THEN CleanValue(val) ELSE ""

\* result = {"OdometerReading": odo_val, "Unit": unit}; TripReading is added
\* when trip_val is not empty
Readings(unit_is_km, odo, trip) ==
    LET result == PyDict(("OdometerReading" :> PyStr(odo))
                           @@ ("Unit" :> PyStr(IF unit_is_km THEN "km" ELSE "miles")))
    IN  IF trip # "" THEN SetKey(result, "TripReading", PyStr(trip))
        ELSE result

\* the readings of the cleaned text
ReadingsOfClean(clean) ==
    Readings(UnitIsKm(clean), CleanIfAny(odo_val(clean)), CleanIfAny(trip_val(clean)))

extract_odometer_and_trip_values(t) ==
    IF t = "" THEN EmptyDict ELSE ReadingsOfClean(CleanText(t))


---------------------------------------------------------------------------
(* OpenAIMapper._clean_empty_fields and OpenAIMapper._safe_parse_json      *)

IsNone(x) == x.t = "null"
IsEmptyList(x) == x.t = "list" /\ Len(x.v) = 0
IsEmptyDict(x) == x.t = "dict" /\ DOMAIN x.v = {}
\* cleaned_value is not None and cleaned_value != [] and cleaned_value != {}
IsKept(x) == ~IsNone(x) /\ ~IsEmptyList(x) /\ ~IsEmptyDict(x)
\* bool(x)
Truthy(x) ==
    CASE x.t = "null" -> FALSE
      [] x.t = "bool" -> x.v
      [] x.t = "num" -> \E p \in 1..Len(x.v) : Ch(x.v, p) \in (Digits \ {"0"})
      [] x.t = "str" -> x.v # ""
      [] x.t = "list" -> Len(x.v) > 0
      [] x.t = "dict" -> DOMAIN x.v # {}

RECURSIVE clean_empty_fields_lists_unfiltered(_)
\* the routine without the filter over the items of a list
clean_empty_fields_lists_unfiltered(obj) ==
    IF obj.t = "dict"
    THEN LET cleaned ==
                 [k \in DOMAIN obj.v |-> clean_empty_fields_lists_unfiltered(obj.v[k])]
         IN  PyDict([k \in {j \in DOMAIN obj.v : IsKept(cleaned[j])} |-> cleaned[k]])
    ELSE IF obj.t = "list"
    THEN LET cleaned ==
                 [j \in 1..Len(obj.v) |-> clean_empty_fields_lists_unfiltered(obj.v[j])]
         IN  IF Len(cleaned) > 0 THEN PyList(cleaned) ELSE PyNone
    ELSE obj

RECURSIVE clean_empty_fields_filter_first(_)
\* the routine testing each value before cleaning it instead of after
clean_empty_fields_filter_first(obj) ==
    IF obj.t = "dict"
    THEN PyDict([k \in {j \in DOMAIN obj.v : IsKept(obj.v[j])} |->
                    clean_empty_fields_filter_first(obj.v[k])])
    ELSE IF obj.t = "list"
    THEN LET kept == SelectSeq(obj.v, IsKept)
         IN  IF Len(kept) > 0
             THEN PyList([j \in 1..Len(kept) |-> clean_empty_fields_filter_first(kept[j])])
             ELSE PyNone
    ELSE obj

RECURSIVE clean_empty_fields(_)
clean_empty_fields(obj) ==
    IF obj.t = "dict"
    THEN LET cleaned == [k \in DOMAIN obj.v |-> clean_empty_fields(obj.v[k])]
         IN  PyDict([k \in {j \in DOMAIN obj.v : IsKept(cleaned[j])} |-> cleaned[k]])
    ELSE IF obj.t = "list"
    THEN LET cleaned == [j \in 1..Len(obj.v) |-> clean_empty_fields(obj.v[j])]
             kept == SelectSeq(cleaned, IsKept)
         IN  IF Len(kept) > 0 THEN PyList(kept) ELSE PyNone
    ELSE obj

InvalidJsonRecord == PyDict("error" :> PyStr("Invalid JSON returned from model."))

\* _safe_parse_json: the direct parse, else the parse of what follows the
\* last fence, else the error record
safe_parse_json(t) ==
    IF json_loads(t).ok THEN json_loads(t).v
    ELSE LET cleaned == Strip(SplitLast(t, Fence))
         IN  IF json_loads(cleaned).ok THEN json_loads(cleaned).v
             ELSE InvalidJsonRecord

---------------------------------------------------------------------------
(* The external model call: it raises (content is str(e)), returns a       *)
(* message whose content is None, or returns a message with text content   *)

Raises(msg) == [kind |-> "raise", content |-> msg]
NoContent == [kind |-> "none", content |-> ""]
Content(t) == [kind |-> "content", content |-> t]

---------------------------------------------------------------------------
(* OpenAIMapper.normalize_text                                             *)

NoTextRecord == PyDict("error" :> PyStr("No text provided for normalization."))
\* {"error": "Text normalization failed", "message": str(e)}
FailedRecord(msg) ==
    PyDict(("error" :> PyStr("Text normalization failed"))
             @@ ("message" :> PyStr(msg)))

\* x in result_json, for a result_json that is a str or a list
InNonDict(x, result_json) ==
    IF result_json.t = "str" THEN Contains(result_json.v, x)
    ELSE \E j \in 1..Len(result_json.v) : result_json.v[j] = PyStr(x)
\* str(e) of the exception lines 195-203 raise on a result_json that is not
\* a dict
NonDictError(result_json) ==
    IF result_json.t \in {"null", "bool", "num"}
    THEN "argument of type '" \o TypeName(result_json) \o "' is not iterable"
    ELSE IF InNonDict("DocumentType", result_json)
            /\ InNonDict("ConfidenceScore", result_json)
         THEN "'" \o TypeName(result_json) \o "' object has no attribute 'get'"
         ELSE IF result_json.t = "str"
              THEN "'str' object does not support item assignment"
              ELSE "list indices must be integers or slices, not str"

\* lines 212-216: the readings found are written over the model's fields
MergeReadings(result_json, readings) ==
    LET odo == GetKey(readings, "OdometerReading", PyNone)
        trip == GetKey(readings, "TripReading", PyNone)
        r1 == IF Truthy(odo)
              THEN SetKey(SetKey(result_json, "OdometerReading", odo),
                          "Unit", GetKey(readings, "Unit", PyStr("miles")))
              ELSE result_json
    IN  IF Truthy(trip) THEN SetKey(r1, "TripReading", trip) ELSE r1

\* the post-process without the test of line 210
odometer_postprocess_always(result_json, t, doc_type) ==
    MergeReadings(result_json, extract_odometer_and_trip_values(t))

\* lines 209-216: the odometer post-process
odometer_postprocess(result_json, t, doc_type) ==
    IF Contains(Lower(doc_type), "odometer") \/ Contains(Lower(t), "odometer")
    THEN MergeReadings(result_json, extract_odometer_and_trip_values(t))
    ELSE result_json

\* lines 194-216 without the restore of lines 206-207
finish_record_no_restore(result_json, t, doc_type, confidence) ==
    LET r1 == IF ~HasKey(result_json, "DocumentType")
              THEN SetKey(result_json, "DocumentType", PyStr(doc_type))
              ELSE result_json
        r2 == IF ~HasKey(r1, "ConfidenceScore")
              THEN SetKey(r1, "ConfidenceScore", PyNum(confidence))
              ELSE r1
    IN  odometer_postprocess(clean_empty_fields(r2), t, doc_type)

\* lines 194-207 on a result_json that is a dict: the two keys ensured, the
\* empty fields removed, the two keys written back
restore_fields(result_json, doc_type, confidence) ==
    LET r1 == IF ~HasKey(result_json, "DocumentType")
              THEN SetKey(result_json, "DocumentType", PyStr(doc_type))
              ELSE result_json
        r2 == IF ~HasKey(r1, "ConfidenceScore")
              THEN SetKey(r1, "ConfidenceScore", PyNum(confidence))
              ELSE r1
        doc_type_val == GetKey(r2, "DocumentType", PyStr(doc_type))
        conf_score_val == GetKey(r2, "ConfidenceScore", PyNum(confidence))
        r3 == clean_empty_fields(r2)
    IN  SetKey(SetKey(r3, "DocumentType", doc_type_val),
               "ConfidenceScore", conf_score_val)

\* lines 194-216 on a result_json that is a dict
finish_record(result_json, t, doc_type, confidence) ==
    odometer_postprocess(restore_fields(result_json, doc_type, confidence),
                         t, doc_type)

\* lines 194-225 on the parsed response
StructuredRecord(result_json, t, doc_type, confidence) ==
    IF ~IsDict(result_json) THEN FailedRecord(NonDictError(result_json))
    ELSE finish_record(result_json, t, doc_type, confidence)

\* normalize_text without the blank check of lines 114-115
normalize_text_no_blank_check(t, doc_type, confidence, outcome) ==
    [calls |-> <<"structure">>,
     ret |->
        IF outcome.kind = "raise" THEN FailedRecord(outcome.content)
        ELSE IF outcome.kind = "none"
             THEN FailedRecord("'NoneType' object has no attribute 'strip'")
             ELSE StructuredRecord(safe_parse_json(Strip(outcome.content)),
                                   t, doc_type, confidence)]

\* normalize_text(text, doc_type, confidence) given the outcome of the model
\* call: [ret |-> the returned dict, calls |-> the model calls made]
normalize_text(t, doc_type, confidence, outcome) ==
    IF t = "" \/ Strip(t) = ""
    THEN [ret |-> NoTextRecord, calls |-> <<>>]
    ELSE [calls |-> <<"structure">>,
          ret |->
            IF outcome.kind = "raise" THEN FailedRecord(outcome.content)
            ELSE IF outcome.kind = "none"
                 THEN FailedRecord("'NoneType' object has no attribute 'strip'")
                 ELSE StructuredRecord(safe_parse_json(Strip(outcome.content)),
                                       t, doc_type, confidence)]


---------------------------------------------------------------------------
(* refine_license_fields                                                   *)

\* what a step of the loop body yields: it raises (error is str(e)) or
\* returns ret; calls are the model calls it made
Raised(msg, calls) == [raised |-> TRUE, error |-> msg, ret |-> PyNone, calls |-> calls]
Returned(val, calls) == [raised |-> FALSE, error |-> "", ret |-> val, calls |-> calls]

\* "driverlicense" in json_data.get("DocumentType", "").lower().replace(" ", "")
IsLicenseType(dt) == Contains(Remove(Lower(dt), " "), "driverlicense")

\* refine_license_fields with the parse of line 228 outside the try block
refine_license_fields_parse_unguarded(json_data, raw_text, outcome) ==
    LET dt == GetKey(json_data, "DocumentType", PyStr(""))
    IN  IF dt.t # "str"
        THEN Raised("'" \o TypeName(dt) \o "' object has no attribute 'lower'", <<>>)
        ELSE IF ~IsLicenseType(dt.v) THEN Returned(json_data, <<>>)
        ELSE IF outcome.kind # "content" THEN Returned(json_data, <<"refine">>)
        ELSE LET cleaned_text == Strip(outcome.content)
                 refined == IF Contains(cleaned_text, Fence)
                            THEN json_loads(Strip(SplitLast(cleaned_text, Fence)))
                            ELSE json_loads(cleaned_text)
             IN  IF refined.ok THEN Returned(refined.v, <<"refine">>)
                 ELSE Raised("Expecting value: line 1 column 1 (char 0)", <<"refine">>)

\* refine_license_fields(openai_client, deployment, json_data, raw_text)
\* given the outcome of the model call
refine_license_fields(json_data, raw_text, outcome) ==
    LET dt == GetKey(json_data, "DocumentType", PyStr(""))
    IN  IF dt.t # "str"
        THEN Raised("'" \o TypeName(dt) \o "' object has no attribute 'lower'", <<>>)
        ELSE IF ~IsLicenseType(dt.v) THEN Returned(json_data, <<>>)
        ELSE IF outcome.kind # "content" THEN Returned(json_data, <<"refine">>)
        ELSE LET cleaned_text == Strip(outcome.content)
                 refined == IF Contains(cleaned_text, Fence)
                            THEN json_loads(Strip(SplitLast(cleaned_text, Fence)))
                            ELSE json_loads(cleaned_text)
             IN  IF refined.ok THEN Returned(refined.v, <<"refine">>)
                 ELSE Returned(json_data, <<"refine">>)

---------------------------------------------------------------------------
(* DocumentIntelligenceHelper.analyze_document and the body of the         *)
(* processing loop of main.py                                              *)

\* the outcome of the layout analysis: it raises, or yields the text of
\* each page and the average word confidence
OcrRaises(msg) == [kind |-> "raise", pages |-> <<>>, confidence |-> "0.0", error |-> msg]
OcrPages(pages, confidence) ==
    [kind |-> "ok", pages |-> pages, confidence |-> confidence, error |-> ""]

RECURSIVE Join(_, _)
\* sep.join(parts)
Join(parts, sep) ==
    IF Len(parts) = 0 THEN ""
    ELSE IF Len(parts) = 1 THEN parts[1]
         ELSE parts[1] \o sep \o Join(Tail(parts), sep)

\* full_text = "\n".join(full_text_lines).strip()
full_text(ocr) == Strip(Join(ocr.pages, "\n"))

\* Path(doc_name).stem
Stem(doc_name) ==
    LET name == SplitLast(doc_name, "/")
        dots == {p \in 1..Len(name) : Ch(name, p) = "."}
        last == CHOOSE p \in dots : \A q \in dots : q <= p
    IN  IF dots # {} /\ last > 1 /\ last < Len(name)
        THEN SubSeq(name, 1, last - 1) ELSE name

ProcessedDate == "2024-01-01 00:00:00"

\* str(e) of normalized["RawData"] = ... on a normalized that is not a dict
ItemAssignmentError(x) ==
    IF x.t = "list" THEN "list indices must be integers or slices, not str"
    ELSE "'" \o TypeName(x) \o "' object does not support item assignment"

\* lines 431-432: the license refinement is applied when the record's type
\* names a driver license
license_step(n, t, r_out) ==
    LET dt == GetKey(n, "DocumentType", PyStr(""))
    IN  IF dt.t # "str"
        THEN Raised("'" \o TypeName(dt) \o "' object has no attribute 'lower'",
                    <<>>)
        ELSE IF IsLicenseType(dt.v) THEN refine_license_fields(n, t, r_out)
             ELSE Returned(n, <<>>)

\* d[k] = val only when d has no key k
SetKeyIfAbsent(d, k, val) == IF HasKey(d, k) THEN d ELSE SetKey(d, k, val)

\* store_result with the two metadata keys written only when absent
store_result_keep_existing(doc_name, t, detected_type, n, r) ==
    LET failed(msg) ==
            [status |-> "error", error |-> msg, extracted |-> TRUE, text |-> t,
             detected_type |-> detected_type, structured |-> n.ret,
             refined |-> r.ret, normalized |-> PyNone, json_name |-> "",
             calls |-> n.calls \o r.calls]
    IN  IF r.raised THEN failed(r.error)
        ELSE IF ~IsDict(r.ret) THEN failed(ItemAssignmentError(r.ret))
        ELSE [status |-> "success", error |-> "", extracted |-> TRUE, text |-> t,
              detected_type |-> detected_type, structured |-> n.ret,
              refined |-> r.ret,
              normalized |->
                  SetKeyIfAbsent(
                      SetKeyIfAbsent(r.ret, "RawData",
                                     PyDict(("text" :> PyStr(t))
                                              @@ ("filename" :> PyStr(doc_name)))),
                      "ProcessedDate", PyStr(ProcessedDate)),
              json_name |-> Stem(doc_name) \o ".json",
              calls |-> n.calls \o r.calls]

\* lines 435-467, or the except block when a step has raised
store_result(doc_name, t, detected_type, n, r) ==
    LET failed(msg) ==
            [status |-> "error", error |-> msg, extracted |-> TRUE, text |-> t,
             detected_type |-> detected_type, structured |-> n.ret,
             refined |-> r.ret, normalized |-> PyNone, json_name |-> "",
             calls |-> n.calls \o r.calls]
    IN  IF r.raised THEN failed(r.error)
        ELSE IF ~IsDict(r.ret) THEN failed(ItemAssignmentError(r.ret))
        ELSE [status |-> "success", error |-> "", extracted |-> TRUE, text |-> t,
              detected_type |-> detected_type, structured |-> n.ret,
              refined |-> r.ret,
              normalized |->
                  SetKey(SetKey(r.ret, "RawData",
                                PyDict(("text" :> PyStr(t))
                                         @@ ("filename" :> PyStr(doc_name)))),
                         "ProcessedDate", PyStr(ProcessedDate)),
              json_name |-> Stem(doc_name) \o ".json",
              calls |-> n.calls \o r.calls]

\* lines 431-467 once the text is structured, for each outcome the
\* refinement call can have
structure_step(doc_name, t, detected_type, n, r_outs) ==
    {store_result(doc_name, t, detected_type, n, license_step(n.ret, t, r_out)) :
        r_out \in r_outs}

\* lines 428-467 once the type is detected, for each outcome the
\* structuring call can have
detect_step(doc_name, t, detected_type, confidence, s_outs, r_outs) ==
    UNION {structure_step(doc_name, t, detected_type,
                          normalize_text(t, detected_type, confidence, s_out),
                          r_outs) :
              s_out \in s_outs}

\* lines 419-467 once the text is extracted
ocr_step(doc_name, all_filenames, t, confidence, s_outs, r_outs) ==
    detect_step(doc_name, t,
                detect_document_type(doc_name, t, ListOf(all_filenames)),
                confidence, s_outs, r_outs)

\* the loop body (lines 401-481) for one uploaded file and one outcome of
\* the OCR call: the records it can end with, one for each outcome of the
\* model calls it makes
process_document(doc_name, all_filenames, ocr, s_outs, r_outs) ==
    IF ocr.kind = "raise"
    THEN {[status |-> "error", error |-> ocr.error, extracted |-> FALSE,
           text |-> "", detected_type |-> "", structured |-> PyNone,
           refined |-> PyNone, normalized |-> PyNone,
           json_name |-> "", calls |-> <<>>]}
    ELSE ocr_step(doc_name, all_filenames, full_text(ocr), ocr.confidence,
                  s_outs, r_outs)


---------------------------------------------------------------------------
(* Inputs of the classification specification                              *)

MaxBatch == 2

FileNames ==
    {"lease.pdf", "Vehicle_Title.pdf", "lease_title.pdf", "income-title.png",
     "insurance_title.pdf", "Pay Stub.pdf", "policy.pdf", "dl.jpg", "d_l.pdf",
     "dl2.pdf", "DL_front.jpg", "driver-back.png", "Driver License.png",
     "handle.png", "reg.pdf", "odometer.jpg", "ref_letter.pdf", "scan001.pdf",
     "photo.png", "dl_lease.pdf"}

BatchNames == {"dl.jpg", "d_l.pdf", "DL_front.jpg"}

Texts ==
    {"", "hello world",
     "Employer: ACME Lease Agreement",
     "employer lease agreement driver license",
     "employer lease agreement lienholder",
     "employer pay period",
     "Date of Birth 01/01/1990 SEX M",
     "DMV barcode",
     "DRIVER LICENSE back",
     "driver only",
     "policy premium",
     "registration card",
     "odometer 68321 mi",
     "reference name"}

Batches ==
    {NoneFiles} \cup
    {ListOf(fs) : fs \in UNION {[1..n -> BatchNames] : n \in 0..MaxBatch}}

Labels ==
    {"ProofOfResidence", "ProofOfIncome", "Title", "Insurance",
     "DriverLicense - Front Side", "DriverLicense - Back Side",
     "DriverLicense", "Registration", "Odometer", "References", "Generic"}

---------------------------------------------------------------------------
(* Classification specification: one call of detect_document_type          *)

\* a value not assigned yet
Unset == [t |-> "unset"]

ClassifyIdle == filename = "" /\ all_files = NoneFiles /\ label = ""
StructureIdle ==
    /\ arg_doc_type = "" /\ arg_confidence = "" /\ call_outcome = NoContent
    /\ parsed_json = Unset /\ normalized = Unset
PipelineIdle ==
    /\ uploaded_files = <<>> /\ results_summary = <<>>
    /\ generated_jsons = <<>> /\ history = <<>>
CleanIdle == tree = Unset /\ stripped = Unset /\ stripped_twice = Unset
OdometerIdle == odo_result = Unset
RefineIdle ==
    license_json = Unset /\ refine_outcome = NoContent /\ refine_result = Unset
FunctionIdle == CleanIdle /\ OdometerIdle /\ RefineIdle

InitClassify ==
    /\ filename \in FileNames
    /\ text \in Texts
    /\ all_files \in Batches
    /\ label = ""
    /\ pc = "call"
    /\ model_calls = <<>>
    /\ StructureIdle /\ PipelineIdle /\ FunctionIdle

Classify ==
    /\ pc = "call"
    /\ label' = detect_document_type(filename, text, all_files)
    /\ pc' = "done"
    /\ UNCHANGED <<filename, text, all_files, model_calls, structure_vars,
                   pipeline_vars,
                   function_vars>>

NextClassify == Classify

SpecClassify == InitClassify /\ [][NextClassify]_vars

---------------------------------------------------------------------------
(* Claims about detect_document_type, checked under SpecClassify           *)

\* the filename keyword lists in the order the if/elif chain tests them
NameKeywordOrder ==
    <<residence_name_keywords, income_name_keywords, title_name_keywords,
      insurance_name_keywords, license_name_keywords,
      registration_name_keywords, odometer_name_keywords,
      reference_name_keywords>>
\* the label family each filename keyword list stands for
NameKeywordFamily ==
    <<"ProofOfResidence", "ProofOfIncome", "Title", "Insurance",
      "DriverLicense", "Registration", "Odometer", "References">>

MatchesNameSet(f, j) == AnyIn(NormalizeName(f), NameKeywordOrder[j])
NoFilenameSignal(f) == \A j \in 1..Len(NameKeywordOrder) : ~MatchesNameSet(f, j)
FirstNameSet(f) ==
    CHOOSE j \in 1..Len(NameKeywordOrder) :
        MatchesNameSet(f, j) /\ \A k \in 1..(j - 1) : ~MatchesNameSet(f, k)
ReachesLicenseBranch(f) == ~NoFilenameSignal(f) /\ FirstNameSet(f) = 5

NoTextSignal(t) ==
    LET tl == Lower(t)
    IN  /\ ~(Contains(tl, "driver") /\ Contains(tl, "license"))
        /\ ~AnyIn(tl, title_text_keywords)
        /\ ~AnyIn(tl, income_text_keywords)
        /\ ~AnyIn(tl, residence_text_keywords)
        /\ ~AnyIn(tl, insurance_text_keywords)
        /\ ~Contains(tl, "registration")
        /\ ~Contains(tl, "odometer")
        /\ ~Contains(tl, "mileage")
        /\ ~AnyIn(tl, reference_text_keywords)

Family(l) ==
    IF l \in {"DriverLicense - Front Side", "DriverLicense - Back Side",
              "DriverLicense"}
    THEN "DriverLicense" ELSE l

\* C1: detect_document_type always returns one label of the fixed set (for
\* every filename, text and batch list, None and the empty list included),
\* and the label is Generic whenever neither the filename stage nor the text
\* stage matches a keyword.
C1_ClassifyTotal ==
    pc = "done" =>
        /\ label \in Labels
        /\ (NoFilenameSignal(filename) /\ NoTextSignal(text)
                => label = "Generic")
C1_Witness ==
    /\ pc = "done"
    /\ all_files = NoneFiles
    /\ NoFilenameSignal(filename) /\ NoTextSignal(text)
    /\ Contains(text, "driver")
    /\ label = "Generic"

\* C2 (as stated): every filename whose normalized form contains "title" is
\* classified Title, whatever other keywords the filename contains.
C2_TitleNameAlwaysTitle ==
    pc = "done" /\ Contains(NormalizeName(filename), "title")
        => label = "Title"
\* C2 (amended): a filename whose normalized form contains "title" and no
\* residence-proof or income-proof filename keyword is classified Title,
\* whatever the text and whatever later keywords the filename contains.
C2_TitleNameUnlessEarlierSet ==
    pc = "done" /\ Contains(NormalizeName(filename), "title")
                /\ ~MatchesNameSet(filename, 1) /\ ~MatchesNameSet(filename, 2)
        => label = "Title"
C2_Witness ==
    /\ pc = "done"
    /\ Contains(NormalizeName(filename), "title")
    /\ MatchesNameSet(filename, 4)
    /\ ~NoTextSignal(text)
    /\ TextStage(Lower(text)) # "Title"
    /\ label = "Title"

HasEmployerAndLease(t) ==
    Contains(Lower(t), "employer") /\ Contains(Lower(t), "lease agreement")

\* C3 (as stated): with no filename keyword matching, a text containing both
\* "employer" and "lease agreement" is classified ProofOfResidence whatever
\* else the text contains.
C3_EmployerLeaseAlwaysResidence ==
    pc = "done" /\ NoFilenameSignal(filename) /\ HasEmployerAndLease(text)
        => label = "ProofOfResidence"
\* C3 (amended): with no filename keyword matching, a text containing both
\* "employer" and "lease agreement" is classified ProofOfResidence provided
\* the text does not contain both "driver" and "license" and contains none
\* of the title text keywords, which are tested first.
C3_EmployerLeaseResidenceUnlessEarlierRule ==
    pc = "done" /\ NoFilenameSignal(filename) /\ HasEmployerAndLease(text)
                /\ ~(Contains(Lower(text), "driver")
                        /\ Contains(Lower(text), "license"))
                /\ ~AnyIn(Lower(text), title_text_keywords)
        => label = "ProofOfResidence"
C3_Witness ==
    /\ pc = "done"
    /\ NoFilenameSignal(filename) /\ HasEmployerAndLease(text)
    /\ ~Contains(text, "employer")
    /\ label = "ProofOfResidence"

\* the files of a batch whose normalized name holds a driver-license keyword
LicenseNamed(files) ==
    {j \in 1..Len(files) :
        AnyIn(NormalizeName(files[j]), license_name_keywords)}
HasSide(f) ==
    Contains(NormalizeName(f), "front") \/ Contains(NormalizeName(f), "back")

\* C4: in a batch where exactly two files match a driver-license filename
\* keyword, neither name containing "front" or "back", each of the two that
\* reaches the driver-license branch is classified plain DriverLicense.
C4_TwoLicenseFilesPlain ==
    (/\ pc = "done"
     /\ ~all_files.isNone
     /\ \E j \in 1..Len(all_files.v) : all_files.v[j] = filename
     /\ Cardinality(LicenseNamed(all_files.v)) = 2
     /\ \A j \in LicenseNamed(all_files.v) : ~HasSide(all_files.v[j])
     /\ ReachesLicenseBranch(filename))
        => label = "DriverLicense"

\* C5: the filename keyword lists are tried in the order residence, income,
\* title, insurance, driver-license, registration, odometer, reference; the
\* first list that matches fixes the label family, whatever the text.
C5_FirstNameSetFixesFamily ==
    pc = "done" /\ ~NoFilenameSignal(filename)
        => Family(label) = NameKeywordFamily[FirstNameSet(filename)]
C5_Witness ==
    /\ pc = "done"
    /\ \E j, k \in 1..Len(NameKeywordOrder) :
          j # k /\ MatchesNameSet(filename, j) /\ MatchesNameSet(filename, k)
    /\ ~NoTextSignal(text)
    /\ Family(TextStage(Lower(text))) # Family(label)
    /\ Family(label) = NameKeywordFamily[FirstNameSet(filename)]

\* the number of names of the supplied list that hold, lower-cased, a
\* driver-license keyword (0 for None)
ListedLicenseCount(files) ==
    IF files.isNone THEN 0
    ELSE Cardinality({j \in 1..Len(files.v) :
            \E k \in {"dl", "driverlicense", "driver"} :
                Contains(Lower(files.v[j]), k)})

\* C6: in the driver-license filename branch "front" in the name gives the
\* front side, else "back" gives the back side; else with exactly one
\* listed name holding a driver-license keyword the label is never plain
\* (front on a front text keyword, else back on a back text keyword, else
\* front); with zero or several such names it is plain DriverLicense.
C6_LicenseBranch ==
    pc = "done" /\ ReachesLicenseBranch(filename) =>
        LET name == NormalizeName(filename)
            tl == Lower(text)
            front == AnyIn(tl, front_text_keywords)
            back == AnyIn(tl, back_text_keywords)
            n == ListedLicenseCount(all_files)
        IN  /\ Contains(name, "front") => label = "DriverLicense - Front Side"
            /\ ~Contains(name, "front") /\ Contains(name, "back")
                  => label = "DriverLicense - Back Side"
            /\ ~HasSide(filename) /\ n = 1 =>
                  /\ label # "DriverLicense"
                  /\ front => label = "DriverLicense - Front Side"
                  /\ ~front /\ back => label = "DriverLicense - Back Side"
                  /\ ~front /\ ~back => label = "DriverLicense - Front Side"
            /\ ~HasSide(filename) /\ n # 1 => label = "DriverLicense"
C6_Witness ==
    /\ pc = "done" /\ ReachesLicenseBranch(filename) /\ ~HasSide(filename)
    /\ ListedLicenseCount(all_files) = 1
    /\ ~AnyIn(Lower(text), front_text_keywords)
    /\ ~AnyIn(Lower(text), back_text_keywords)
    /\ label = "DriverLicense - Front Side"

---------------------------------------------------------------------------
(* Structuring specification: one call of normalize_text and one call of   *)
(* _safe_parse_json on the model's response                                *)

StructTexts ==
    {"",
     "   ",
     " \n",
     "Certificate of Title",
     "odometer 68320 mi",
     "Trip 12.5 Odometer 0 mi",
     "Driver License DOB 01/01/1990",
     "TM 2471.60 mi, 68263.0 mi"}

StructDocTypes == {"Generic", "Odometer", "DriverLicense", "Title"}

Confidences == {"0.0", "0.93"}

StructOutcomes ==
    {Raises("Connection error."),
     NoContent,
     Content("{\"DocumentType\": \"Title\", \"ConfidenceScore\": 0.5, \"Owner\": {\"Name\": \"J\"}, \"Liens\": [], \"Notes\": null}"),
     Content("{\"Name\": \"J\", \"Address\": {}, \"Items\": [null, {}, []]}"),
     Content("  {\"OdometerReading\": \"1\", \"Unit\": \"x\", \"TripReading\": \"9\", \"Vin\": \"V\"}\n"),
     Content("{\"DocumentType\": null, \"ConfidenceScore\": []}"),
     Content("{\"DocumentType\": {\"a\": null}, \"ConfidenceScore\": [[]]}"),
     Content("{}"),
     Content("I could not read the document."),
     Content(""),
     Content("^^^json\n{\"Name\": \"J\"}\n^^^"),
     Content("^^^\n{\"Name\": \"J\"}\n^^^"),
     Content("Here is the JSON:\n^^^\n{\"Name\": \"J\"}"),
     Content("Here is the JSON: ^^^{\"Name\": \"J\"}^^^ Done."),
     Content("^^^{\"a\": 1}^^^ then ^^^{\"Name\": \"J\"}^^^"),
     Content("[1, 2]"),
     Content("[\"DocumentType\", \"ConfidenceScore\"]"),
     Content("[\"DocumentType\"]"),
     Content("\"plain\""),
     Content("\"DocumentType ConfidenceScore\""),
     Content("42"),
     Content("0.5"),
     Content("null"),
     Content("true"),
     Content("{\"a\": 1} trailing")}

InitStructure ==
    /\ text \in StructTexts
    /\ arg_doc_type \in StructDocTypes
    /\ arg_confidence \in Confidences
    /\ call_outcome \in StructOutcomes
    /\ parsed_json = Unset
    /\ normalized = Unset
    /\ model_calls = <<>>
    /\ pc = "call"
    /\ ClassifyIdle /\ PipelineIdle /\ FunctionIdle

\* result_json = self._safe_parse_json(output_text)
SafeParse ==
    /\ parsed_json = Unset
    /\ call_outcome.kind = "content"
    /\ parsed_json' = safe_parse_json(Strip(call_outcome.content))
    /\ UNCHANGED <<text, arg_doc_type, arg_confidence, call_outcome, normalized,
                   model_calls, pc, classify_vars, pipeline_vars,
                   function_vars>>

\* normalized = mapper.normalize_text(text, doc_type=..., confidence=...)
Normalize ==
    /\ normalized = Unset
    /\ \E n \in {normalize_text(text, arg_doc_type, arg_confidence, call_outcome)} :
           /\ normalized' = n.ret
           /\ model_calls' = model_calls \o n.calls
    /\ pc' = "done"
    /\ UNCHANGED <<text, arg_doc_type, arg_confidence, call_outcome, parsed_json,
                   classify_vars, pipeline_vars,
                   function_vars>>

NextStructure == SafeParse \/ Normalize

SpecStructure == InitStructure /\ [][NextStructure]_vars

---------------------------------------------------------------------------
(* Claims about the structuring step                                       *)

\* the response text as normalize_text hands it to _safe_parse_json
ResponseText(outcome) == Strip(outcome.content)
\* neither parse attempt of _safe_parse_json succeeds on t
ResponseUnparseable(t) ==
    ~json_loads(t).ok /\ ~json_loads(Strip(SplitLast(t, Fence))).ok
\* the model call raised, or its response is not JSON, or is JSON that is
\* not an object
FailureOutcome(outcome) ==
    \/ outcome.kind = "raise"
    \/ /\ outcome.kind = "content"
       /\ \/ ResponseUnparseable(ResponseText(outcome))
          \/ ~IsDict(safe_parse_json(ResponseText(outcome)))
\* normalize_text has returned after calling the model
CalledAndReturned == pc = "done" /\ model_calls = <<"structure">>

\* C8: for every failed outcome of the model call (exception, non-JSON
\* text, JSON that is not an object) the record normalize_text returns is a
\* dict whose only keys are error and message
C8_FailureRecordOnlyErrorAndMessage ==
    (CalledAndReturned /\ FailureOutcome(call_outcome)) =>
        IsDict(normalized) /\ DOMAIN normalized.v = {"error", "message"}

\* what lies between the last pair of fences of t, stripped
BetweenLastFences(t) == Strip(Split(t, Fence)[Len(Split(t, Fence)) - 1])
\* t holds fences in pairs and a JSON object between the last pair
HasFencedObject(t) ==
    /\ Len(Split(t, Fence)) >= 3
    /\ Len(Split(t, Fence)) % 2 = 1
    /\ json_loads(BetweenLastFences(t)).ok
    /\ IsDict(json_loads(BetweenLastFences(t)).v)

\* C9: a response that is not directly parseable and holds a JSON object
\* between its last pair of fences is parsed to that object
C9_FencedObjectRecovered ==
    (/\ parsed_json # Unset
     /\ ~json_loads(ResponseText(call_outcome)).ok
     /\ HasFencedObject(ResponseText(call_outcome)))
    => parsed_json = json_loads(BetweenLastFences(ResponseText(call_outcome))).v

\* the response of the call parses to a JSON object
ParsesToObject(outcome) ==
    /\ outcome.kind = "content"
    /\ ~ResponseUnparseable(ResponseText(outcome))
    /\ IsDict(safe_parse_json(ResponseText(outcome)))
\* the record holds key k with the model's value when the model supplied
\* k and with the input value otherwise
KeptOrDefaulted(record, parsed, k, input) ==
    HasKey(record, k) /\ record.v[k] = GetKey(parsed, k, input)

\* C10: when the response parses to a JSON object, the returned record
\* holds DocumentType and ConfidenceScore, each with the model's value if
\* the model supplied the key and with the input value otherwise
C10_TypeAndConfidenceKept ==
    (CalledAndReturned /\ ParsesToObject(call_outcome)) =>
        /\ IsDict(normalized)
        /\ KeptOrDefaulted(normalized, safe_parse_json(ResponseText(call_outcome)),
                           "DocumentType", PyStr(arg_doc_type))
        /\ KeptOrDefaulted(normalized, safe_parse_json(ResponseText(call_outcome)),
                           "ConfidenceScore", PyNum(arg_confidence))
C10_Witness ==
    /\ CalledAndReturned /\ ParsesToObject(call_outcome)
    /\ GetKey(safe_parse_json(ResponseText(call_outcome)), "DocumentType",
              PyStr("")) = PyNone
    /\ IsEmptyList(GetKey(safe_parse_json(ResponseText(call_outcome)),
                          "ConfidenceScore", PyNone))
    /\ normalized.v["DocumentType"] = PyNone
    /\ normalized.v["ConfidenceScore"] = PyList(<<>>)

\* "odometer" in doc_type.lower() or "odometer" in text.lower()
MentionsOdometer(doc_type, t) ==
    Contains(Lower(doc_type), "odometer") \/ Contains(Lower(t), "odometer")
\* the keys the odometer post-process may write
ReadingKeys == {"OdometerReading", "Unit", "TripReading"}
\* every key outside ReadingKeys is in record exactly when it is in before,
\* with the same value
OtherKeysKept(record, before) ==
    /\ DOMAIN record.v \ ReadingKeys = DOMAIN before.v \ ReadingKeys
    /\ \A k \in DOMAIN before.v \ ReadingKeys : record.v[k] = before.v[k]
\* key k of record is val when the extractor found the reading, and is as in
\* before otherwise
ReadingWritten(record, before, k, found, val) ==
    IF found THEN HasKey(record, k) /\ record.v[k] = val
    ELSE /\ HasKey(record, k) <=> HasKey(before, k)
         /\ HasKey(before, k) => record.v[k] = before.v[k]
\* the post-process has run on before with the extractor's readings
PostProcessRan(record, before, found) ==
    /\ ReadingWritten(record, before, "OdometerReading",
                      Truthy(GetKey(found, "OdometerReading", PyNone)),
                      GetKey(found, "OdometerReading", PyNone))
    /\ ReadingWritten(record, before, "Unit",
                      Truthy(GetKey(found, "OdometerReading", PyNone)),
                      GetKey(found, "Unit", PyStr("miles")))
    /\ ReadingWritten(record, before, "TripReading",
                      Truthy(GetKey(found, "TripReading", PyNone)),
                      GetKey(found, "TripReading", PyNone))
\* the record of the response after the stripping and the restore
AfterStripping ==
    restore_fields(safe_parse_json(ResponseText(call_outcome)), arg_doc_type,
                   arg_confidence)

\* C13: the odometer post-process of normalize_text runs exactly when the
\* detected type or the source text contains "odometer", whatever the case
\* of the letters; when it runs it writes the extractor's readings to
\* OdometerReading, Unit and TripReading and every other key keeps the value
\* it had after stripping; when it does not run the record is unchanged.
C13_PostProcessOnlyOnOdometer ==
    (CalledAndReturned /\ ParsesToObject(call_outcome)) =>
        /\ IsDict(normalized)
        /\ OtherKeysKept(normalized, AfterStripping)
        /\ IF MentionsOdometer(arg_doc_type, text)
           THEN PostProcessRan(normalized, AfterStripping,
                               extract_odometer_and_trip_values(text))
           ELSE normalized = AfterStripping
\* the text names the odometer, the detected type does not: the model's
\* reading and unit are overwritten, its trip reading and its other key stay
C13_Witness ==
    /\ CalledAndReturned /\ ParsesToObject(call_outcome)
    /\ ~Contains(Lower(arg_doc_type), "odometer") /\ Contains(text, "odometer")
    /\ GetKey(AfterStripping, "OdometerReading", PyNone) = PyStr("1")
    /\ GetKey(normalized, "OdometerReading", PyNone) # PyStr("1")
    /\ GetKey(normalized, "Unit", PyNone) = PyStr("miles")
    /\ GetKey(normalized, "TripReading", PyNone) = PyStr("9")
    /\ GetKey(normalized, "Vin", PyNone) = PyStr("V")

RECURSIVE NothingEmptyIn(_)
\* at every depth of x no key maps to null, [] or {} and no list holds one
NothingEmptyIn(x) ==
    IF x.t = "dict"
    THEN \A k \in DOMAIN x.v : IsKept(x.v[k]) /\ NothingEmptyIn(x.v[k])
    ELSE IF x.t = "list"
    THEN \A j \in 1..Len(x.v) : IsKept(x.v[j]) /\ NothingEmptyIn(x.v[j])
    ELSE TRUE

\* C24: in every record normalize_text returns after the response parsed to
\* a JSON object, no key at any depth maps to null, an empty list or an
\* empty object; this includes the restored DocumentType and
\* ConfidenceScore when the model emitted them as null or as empty
\* containers, and the keys merged by the odometer post-process.
C24_NothingEmptyInRecord ==
    (CalledAndReturned /\ ParsesToObject(call_outcome)) =>
        IsDict(normalized) /\ NothingEmptyIn(normalized)

---------------------------------------------------------------------------
(* Pipeline specification: the processing loop of main.py over one batch   *)

MaxFiles == 2

UploadNames == {"dl.jpg", "scan.pdf", "scan.png"}

OcrOutcomes ==
    {OcrRaises("Invalid request"),
     OcrPages(<<"  ", "">>, "0.0"),
     OcrPages(<<"Driver License", "DOB 01/01/1990">>, "0.93"),
     OcrPages(<<"Certificate of Title">>, "0.88")}

PipelineStructOutcomes ==
    {Raises("Connection error."),
     Content("{\"Name\": \"J\", \"Items\": []}"),
     Content("I could not read the document."),
     Content("{\"DocumentType\": null}"),
     Content("{\"DocumentType\": \"Driver License\", \"RawData\": \"x\", \"ProcessedDate\": \"y\"}")}

RefineOutcomes ==
    {Raises("Request timed out."),
     Content("{\"LicenseNumber\": \"S1234567\"}"),
     Content("[1, 2]")}

\* the batches: up to MaxFiles files of different names, in any order
Uploads ==
    {b \in UNION {[1..n -> UploadNames] : n \in 1..MaxFiles} :
        \A i, j \in DOMAIN b : i # j => b[i] # b[j]}

Init ==
    /\ uploaded_files \in Uploads
    /\ results_summary = <<>>
    /\ generated_jsons = <<>>
    /\ history = <<>>
    /\ model_calls = <<>>
    /\ text = ""
    /\ pc = "loop"
    /\ ClassifyIdle /\ StructureIdle /\ FunctionIdle

\* results_summary.append({...}) of the try block or of the except block
SummaryEntry(doc_name, d) ==
    IF d.status = "success"
    THEN ("document" :> doc_name) @@ ("status" :> "success")
            @@ ("detected_type" :> d.detected_type) @@ ("json_file" :> d.json_name)
    ELSE ("document" :> doc_name) @@ ("status" :> "error") @@ ("error" :> d.error)

\* the iteration without the try/except of lines 401-481: a failing step
\* ends the run
ProcessDocument_abort_on_error ==
    /\ pc = "loop"
    /\ Len(results_summary) < Len(uploaded_files)
    /\ LET doc_name == uploaded_files[Len(results_summary) + 1]
       IN  \E ocr \in OcrOutcomes :
              \E d \in process_document(doc_name, uploaded_files, ocr,
                                       PipelineStructOutcomes, RefineOutcomes) :
                  IF d.status = "error"
                  THEN /\ pc' = "finished"
                       /\ UNCHANGED <<results_summary, generated_jsons, history,
                                      model_calls>>
                  ELSE /\ results_summary' =
                              Append(results_summary, SummaryEntry(doc_name, d))
                       /\ generated_jsons' =
                              (d.json_name :>
                                  [doc_name |-> doc_name,
                                   detected_type |-> d.detected_type,
                                   normalized |-> d.normalized]) @@ generated_jsons
                       /\ history' = Append(history, d)
                       /\ model_calls' = model_calls \o d.calls
                       /\ pc' = pc
    /\ UNCHANGED <<uploaded_files, text, classify_vars, structure_vars,
                   function_vars>>

\* one iteration of  for i, uploaded_file in enumerate(uploaded_files)
ProcessDocument ==
    /\ pc = "loop"
    /\ Len(results_summary) < Len(uploaded_files)
    /\ LET doc_name == uploaded_files[Len(results_summary) + 1]
       IN  \E ocr \in OcrOutcomes :
              \E d \in process_document(doc_name, uploaded_files, ocr,
                                       PipelineStructOutcomes, RefineOutcomes) :
                  /\ results_summary' = Append(results_summary, SummaryEntry(doc_name, d))
                  /\ generated_jsons' =
                        IF d.status = "success"
                        THEN (d.json_name :>
                                [doc_name |-> doc_name,
                                 detected_type |-> d.detected_type,
                                 normalized |-> d.normalized]) @@ generated_jsons
                        ELSE generated_jsons
                  /\ history' = Append(history, d)
                  /\ model_calls' = model_calls \o d.calls
    /\ UNCHANGED <<uploaded_files, text, pc, classify_vars, structure_vars,
                   function_vars>>

\* after the loop: the results are stored in the session state
Finish ==
    /\ pc = "loop"
    /\ Len(results_summary) = Len(uploaded_files)
    /\ pc' = "finished"
    /\ UNCHANGED <<uploaded_files, results_summary, generated_jsons, history,
                   model_calls, text, classify_vars, structure_vars,
                   function_vars>>

Next == ProcessDocument \/ Finish

Spec == Init /\ [][Next]_vars

\* a step of the loop: one more entry in the summary, or the end of the run
LoopStep == Len(results_summary') # Len(results_summary) \/ pc' # pc
\* the for loop runs on its own: an iteration that can run does run, and the
\* statements after the loop follow the last iteration. This is WF_vars(Next)
\* written out: Next is enabled exactly while pc = "loop" (the outcome sets
\* are not empty), and a step that changes vars is a Next step exactly when
\* it is a LoopStep.
LoopFairness == []<>(pc # "loop") \/ []<><<LoopStep>>_vars
FairSpec == Spec /\ LoopFairness

---------------------------------------------------------------------------
(* Claims about the processing loop                                        *)

\* C7: a document whose extracted text is empty or only whitespace causes
\* no model call, neither the structuring call nor the refinement call, and
\* its record carries the error "No text provided for normalization."
C7_BlankTextNoModelCall ==
    \A i \in 1..Len(history) :
        (history[i].extracted /\ Strip(history[i].text) = "") =>
            /\ history[i].calls = <<>>
            /\ IsDict(history[i].normalized)
            /\ GetKey(history[i].normalized, "error", PyNone)
                  = PyStr("No text provided for normalization.")
C7_Witness ==
    \E i \in 1..Len(history) :
        /\ history[i].extracted /\ history[i].text = ""
        /\ history[i].calls = <<>>
        /\ history[i].status = "success"
        /\ history[i].json_name \in DOMAIN generated_jsons
        /\ GetKey(generated_jsons[history[i].json_name].normalized, "error", PyNone)
              = PyStr("No text provided for normalization.")

\* the refinement call was made for the document of history record h
RefinementRan(h) == \E j \in 1..Len(h.calls) : h.calls[j] = "refine"
\* the text was extracted and the structuring step returned a record
\* without an error key
StructuringSucceeded(h) ==
    h.extracted /\ IsDict(h.structured) /\ ~HasKey(h.structured, "error")
\* the document of h is recorded as a success with its ProcessedResult
RecordedAsSuccess(h) ==
    /\ h.status = "success"
    /\ h.json_name \in DOMAIN generated_jsons
    /\ IsDict(h.normalized)

\* C19: the license refiner never blocks the pipeline: for a document whose
\* OCR and structuring steps succeeded, whatever the refinement model does
\* (call failure, text that is not JSON, valid JSON of any shape, also JSON
\* that is not an object), the document is recorded as a success with its
\* ProcessedResult and never as a failed entry.
C19_RefinerNeverBlocks ==
    \A i \in 1..Len(history) :
        (StructuringSucceeded(history[i]) /\ RefinementRan(history[i])) =>
            RecordedAsSuccess(history[i])

\* the structuring response of h was plain text without JSON
PlainTextResponse(h) ==
    /\ h.extracted /\ IsDict(h.structured)
    /\ GetKey(h.structured, "error", PyNone) = InvalidJsonRecord.v["error"]

\* C20: when the structuring response is plain text with no JSON, no
\* exception escapes the processing of the document and its ProcessedResult
\* holds an error key, for every detected type, the driver-license types,
\* after which the refinement runs, included.
C20_PlainTextGivesErrorKey ==
    \A i \in 1..Len(history) :
        PlainTextResponse(history[i]) =>
            /\ RecordedAsSuccess(history[i])
            /\ HasKey(history[i].normalized, "error")

\* the two keys the loop adds to the record
MetadataKeys == {"RawData", "ProcessedDate"}
\* RawData = {text: the raw text, filename: the document's filename}
RawDataOf(t, doc_name) ==
    PyDict(("text" :> PyStr(t)) @@ ("filename" :> PyStr(doc_name)))
\* result is record with the two metadata keys set and nothing else changed
Assembled(result, record, t, doc_name) ==
    /\ IsDict(result)
    /\ DOMAIN result.v = DOMAIN record.v \cup MetadataKeys
    /\ result.v["RawData"].t = "dict"
    /\ result.v["RawData"] = RawDataOf(t, doc_name)
    /\ result.v["ProcessedDate"] = PyStr(ProcessedDate)
    /\ \A k \in DOMAIN record.v \ MetadataKeys : result.v[k] = record.v[k]

\* C21: every ProcessedResult holds RawData = {text: the raw text, filename:
\* the document's filename} and ProcessedDate, also when the raw text is
\* empty and also when the structured record already held keys of those
\* names, which are overwritten; every other key of the structured record
\* is passed through with its value unchanged.
C21_MetadataInjected ==
    \A i \in 1..Len(history) :
        history[i].status = "success" =>
            Assembled(history[i].normalized, history[i].refined,
                      history[i].text, uploaded_files[i])
\* one document with empty text and one whose record came with RawData and
\* ProcessedDate of its own
C21_Witness ==
    \E i, j \in 1..Len(history) :
        /\ history[i].status = "success" /\ history[i].text = ""
        /\ history[i].normalized.v["RawData"] = RawDataOf("", uploaded_files[i])
        /\ history[j].status = "success"
        /\ GetKey(history[j].refined, "RawData", PyNone) = PyStr("x")
        /\ GetKey(history[j].refined, "ProcessedDate", PyNone) = PyStr("y")
        /\ history[j].normalized.v["RawData"]
              = RawDataOf(history[j].text, uploaded_files[j])
        /\ history[j].normalized.v["ProcessedDate"] # PyStr("y")

\* entry i of the summary is the entry of uploaded document i, a success or
\* an error with a message, and is what the outcome of document i alone
\* gives
EntryOfDocument(i) ==
    /\ results_summary[i]["document"] = uploaded_files[i]
    /\ results_summary[i]["status"] \in {"success", "error"}
    /\ results_summary[i]["status"] = "error" =>
          "error" \in DOMAIN results_summary[i]
    /\ results_summary[i]["status"] = history[i].status
    /\ results_summary[i] = SummaryEntry(uploaded_files[i], history[i])
\* the documents processed so far are the first ones uploaded, in order
ProcessedInUploadOrder ==
    /\ Len(results_summary) <= Len(uploaded_files)
    /\ Len(history) = Len(results_summary)
    /\ \A i \in 1..Len(results_summary) : EntryOfDocument(i)
\* the run has ended
BatchEnded == pc = "finished"

\* C22: a batch run processes the documents one at a time in upload order
\* and ends; after it ends the summary holds exactly one entry per uploaded
\* document, in upload order, each a success or an error; a failure of the
\* text extraction or of a later step of document i gives an error entry
\* with a message for i only, and the documents after i are still processed.
C22_OneEntryPerDocumentInOrder ==
    /\ []ProcessedInUploadOrder
    /\ [](BatchEnded => Len(results_summary) = Len(uploaded_files))
    /\ <>BatchEnded
\* the text extraction of the first document fails, the second document is
\* processed all the same
C22_Witness ==
    /\ BatchEnded /\ Len(uploaded_files) = MaxFiles
    /\ ~history[1].extracted /\ results_summary[1]["status"] = "error"
    /\ results_summary[MaxFiles]["status"] = "success"

\* C23: every ProcessedResult of a successfully processed document that
\* carries no error key is a mapping holding both required keys,
\* DocumentType and ConfidenceScore, also after the license refinement has
\* replaced the record.
C23_RequiredKeysPresent ==
    \A i \in 1..Len(history) :
        (history[i].status = "success" /\ ~HasKey(history[i].normalized, "error")) =>
            /\ IsDict(history[i].normalized)
            /\ HasKey(history[i].normalized, "DocumentType")
            /\ HasKey(history[i].normalized, "ConfidenceScore")

\* the summary entries of documents i and j name different outputs
DistinctOutputs(i, j) ==
    results_summary[i]["json_file"] # results_summary[j]["json_file"]
\* the generated outputs hold the record of uploaded document i under the
\* name its summary entry gives
OwnOutputStored(i) ==
    /\ results_summary[i]["json_file"] \in DOMAIN generated_jsons
    /\ generated_jsons[results_summary[i]["json_file"]].doc_name = uploaded_files[i]
    /\ generated_jsons[results_summary[i]["json_file"]].normalized
          = history[i].normalized
\* the uploaded documents whose summary status is success
Successes == {i \in 1..Len(results_summary) : results_summary[i]["status"] = "success"}

\* C26: no successfully processed document is silently dropped: after a
\* batch run the generated JSON outputs hold one distinct entry for every
\* document whose summary status is success, holding that document's own
\* record, also when two uploaded filenames differ only in their extension
\* and so map to the same output name.
C26_NoSuccessDropped ==
    BatchEnded =>
        /\ \A i \in Successes : OwnOutputStored(i)
        /\ \A i, j \in Successes : i # j => DistinctOutputs(i, j)
        /\ Cardinality(DOMAIN generated_jsons) = Cardinality(Successes)

\* the label the classifier returns for uploaded document i
ClassifierLabel(i) ==
    detect_document_type(uploaded_files[i], history[i].text, ListOf(uploaded_files))

\* C27: each document has exactly one type label throughout its run: the
\* DocumentType stored in its record, the label that decides whether the
\* license refiner runs, and the detected type of its summary entry all
\* equal the label the classifier returned for the document. (Stated for
\* the documents whose structuring step returned a record without error.)
C27_OneLabelPerDocument ==
    \A i \in 1..Len(history) :
        StructuringSucceeded(history[i]) =>
            /\ RefinementRan(history[i]) <=> IsLicenseType(ClassifierLabel(i))
            /\ history[i].status = "success" =>
                  /\ results_summary[i]["detected_type"] = ClassifierLabel(i)
                  /\ GetKey(history[i].normalized, "DocumentType", PyNone)
                        = PyStr(ClassifierLabel(i))

---------------------------------------------------------------------------
(* _clean_empty_fields on its own: every JSON tree of at most MaxNodes     *)
(* nodes is cleaned once and then once more                                *)

MaxNodes == 4

\* the scalars of a tree as JSON text: null, the empty and a non-empty
\* string, zero
ScalarTexts == {"null", "\"\"", "\"x\"", "0"}
\* the member of an object that the i-th item of a sequence becomes
MemberText(i, item) == "\"k" \o ToString(i) \o "\": " \o item
\* the JSON text of the list, and of the object, with the items f
ListText(f) == "[" \o Join(f, ", ") \o "]"
DictText(f) == "{" \o Join([i \in 1..Len(f) |-> MemberText(i, f[i])], ", ") \o "}"

RECURSIVE TreesOfSize(_)
RECURSIVE ForestsOfSize(_)
\* the sequences of JSON texts with n nodes in all
ForestsOfSize(n) ==
    IF n = 0 THEN {<<>>}
    ELSE UNION {{<<t>> \o f : t \in TreesOfSize(k), f \in ForestsOfSize(n - k)} :
                   k \in 1..n}
\* the JSON texts with n nodes: a scalar or an empty container is one node
TreesOfSize(n) ==
    IF n = 1 THEN ScalarTexts \cup {"[]", "{}"}
    ELSE {ListText(f) : f \in ForestsOfSize(n - 1)}
            \cup {DictText(f) : f \in ForestsOfSize(n - 1)}
JsonTexts == UNION {TreesOfSize(n) : n \in 1..MaxNodes}

\* obj is what json.loads gave for one of the texts
InitClean ==
    /\ \E src \in JsonTexts : tree = json_loads(src).v
    /\ stripped = Unset /\ stripped_twice = Unset
    /\ text = "" /\ model_calls = <<>> /\ pc = "call"
    /\ ClassifyIdle /\ StructureIdle /\ PipelineIdle /\ OdometerIdle /\ RefineIdle

\* cleaned = self._clean_empty_fields(obj)
CleanOnce ==
    /\ pc = "call"
    /\ stripped' = clean_empty_fields(tree)
    /\ pc' = "again"
    /\ UNCHANGED <<tree, stripped_twice, text, model_calls, odo_result,
                   license_json, refine_outcome, refine_result, classify_vars,
                   structure_vars, pipeline_vars>>

\* the routine applied to its own result
CleanAgain ==
    /\ pc = "again"
    /\ stripped_twice' = clean_empty_fields(stripped)
    /\ pc' = "done"
    /\ UNCHANGED <<tree, stripped, text, model_calls, odo_result, license_json,
                   refine_outcome, refine_result, classify_vars, structure_vars,
                   pipeline_vars>>

NextClean == CleanOnce \/ CleanAgain

SpecClean == InitClean /\ [][NextClean]_vars

---------------------------------------------------------------------------
(* Claims about _clean_empty_fields                                        *)

\* C11: for every JSON object given to _clean_empty_fields the result is an
\* object in which, at every depth, no key maps to null, to an empty list or
\* to an empty object and no list contains one of them; a list emptied by
\* the removal is therefore gone from its parent as well.
C11_NothingEmptyAfterStripping ==
    (pc # "call" /\ IsDict(tree)) => IsDict(stripped) /\ NothingEmptyIn(stripped)
\* an object one of whose lists is emptied by the removal and dropped from
\* it while another member stays
C11_Witness ==
    /\ pc = "again" /\ IsDict(tree)
    /\ \E k \in DOMAIN tree.v :
          /\ tree.v[k].t = "list" /\ Len(tree.v[k].v) > 0
          /\ k \notin DOMAIN stripped.v
    /\ DOMAIN stripped.v # {}

\* C12: _clean_empty_fields is idempotent: for every JSON tree x, an object,
\* a list or a scalar, also one that strips to nothing, cleaning the cleaned
\* tree again gives the cleaned tree.
C12_StrippingIdempotent == pc = "done" => stripped_twice = stripped
\* a list that strips to nothing, cleaned twice
C12_Witness ==
    /\ pc = "done" /\ tree.t = "list" /\ Len(tree.v) > 0
    /\ stripped = PyNone /\ stripped_twice = PyNone

---------------------------------------------------------------------------
(* _extract_odometer_and_trip_values on its own: one call per text         *)

\* what a display shows about the trip meter, first in the text
TripParts ==
    {"", "Trip 12.5 ", "TRIP: 031323 ", "Trip Computer A/B ", "Trip 5 info screen, ",
     "tm-7 Trip A ", "12 trip ", "Trip 0 "}
\* what it shows about the odometer
OdoParts ==
    {"", "no reading", "68321 mi", "1234.5 mi 68321 mi", "68263.0 miles",
     "1,200 Km", "100 9000.50 77", "68321 mi after 5 minutes", "ODO 0"}
\* what follows on the display
TailParts == {"", " ", ", Trip 12.5", "\t300 kilometers"}
OdoTexts == {a \o b \o c : a \in TripParts, b \in OdoParts, c \in TailParts}

InitOdometer ==
    /\ text \in OdoTexts
    /\ odo_result = Unset
    /\ model_calls = <<>> /\ pc = "call"
    /\ ClassifyIdle /\ StructureIdle /\ PipelineIdle /\ CleanIdle /\ RefineIdle

\* readings = self._extract_odometer_and_trip_values(text)
ExtractReadings ==
    /\ pc = "call"
    /\ odo_result' = extract_odometer_and_trip_values(text)
    /\ pc' = "done"
    /\ UNCHANGED <<text, model_calls, tree, stripped, stripped_twice, license_json,
                   refine_outcome, refine_result, classify_vars, structure_vars,
                   pipeline_vars>>

NextOdometer == ExtractReadings

SpecOdometer == InitOdometer /\ [][NextOdometer]_vars

---------------------------------------------------------------------------
(* Claims about _extract_odometer_and_trip_values                          *)

\* the text holds a number, so that the odometer scan finds a value
HasNumber(t) == \E p \in 1..Len(t) : Ch(t, p) \in Digits
\* the extractor has returned for a text that is not empty
Extracted == pc = "done" /\ text # ""

\* C14: the extractor never fails and returns an empty mapping on empty
\* input; on any other input the result holds Unit, holds the key
\* OdometerReading only if an odometer value was found, and holds
\* TripReading only if a trip value was found and accepted.
C14_ReadingKeysOnlyWhenFound ==
    pc = "done" =>
        IF text = "" THEN odo_result = EmptyDict
        ELSE /\ IsDict(odo_result) /\ HasKey(odo_result, "Unit")
             /\ HasKey(odo_result, "OdometerReading") => HasNumber(text)
             /\ HasKey(odo_result, "TripReading") => trip_val(CleanText(text)) # ""

\* the distance-unit tokens, each also with a plural s
UnitTokens ==
    {"mi", "mile", "km", "kilometer", "mis", "miles", "kms", "kilometers"}
\* one of the unit tokens stands at a, as a word of its own
UnitTokenAt(s, a) ==
    \E u \in UnitTokens : At(s, a, u) /\ WordBoundary(s, a + Len(u))
\* the number that starts at p is followed by a unit token, white space
\* allowed between the two
UnitTagged(s, p) ==
    Ch(s, p) \in Digits /\ UnitTokenAt(s, SkipWs(s, NumEnd(s, p)))
\* the last unit-tagged number in reading order: it ends last and, ending
\* there, starts first
LastUnitTagged(s) ==
    LET p == CHOOSE p \in 1..Len(s) :
                /\ UnitTagged(s, p)
                /\ \A q \in 1..Len(s) :
                      UnitTagged(s, q) =>
                          \/ NumEnd(s, q) < NumEnd(s, p)
                          \/ NumEnd(s, q) = NumEnd(s, p) /\ p <= q
    IN  SubSeq(s, p, NumEnd(s, p) - 1)
\* the odometer value of the normalized text s as C15 words it
OdometerByRule(s) ==
    IF \E p \in 1..Len(s) : UnitTagged(s, p) THEN LastUnitTagged(s)
    ELSE IF HasNumber(s) THEN MaxByFloat(FindNumbers(s, 1)) ELSE ""

\* C15: the odometer value is the last number, in reading order, that is
\* immediately followed by a distance-unit token; only when the text has no
\* unit-tagged number at all is it the numerically largest bare number; the
\* trip scan plays no part in it. (The value is compared after the trimming
\* of trailing zeros.)
C15_LastUnitTaggedNumberWins ==
    Extracted =>
        GetKey(odo_result, "OdometerReading", PyNone)
            = PyStr(CleanIfAny(OdometerByRule(CleanText(text))))

\* the first trip candidate of the normalized text s
TripCandidate(s) == FirstTripMatch(FirstMatchFrom(s, 1, "trip_before"), s)
\* 10 characters before the start of match m to 10 after its end
WindowOf(s, m) ==
    SubSeq(s, IF m.start - 10 < 1 THEN 1 ELSE m.start - 10,
              IF m.end + 9 > Len(s) THEN Len(s) ELSE m.end + 9)
\* the window holds "computer", a "trip a" or "trip b" token, or "info"
MenuLabelIn(w) ==
    \/ Contains(w, "computer") \/ Contains(w, "info")
    \/ \E p \in 1..Len(w) : \E gap \in {"", " "} : \E c \in {"a", "b"} :
          At(w, p, "trip" \o gap \o c) /\ WordBoundary(w, p + Len(gap) + 5)
\* the trip candidate of the text is rejected by the menu-label filter
TripRejected ==
    /\ TripCandidate(CleanText(text)).ok
    /\ MenuLabelIn(WindowOf(CleanText(text), TripCandidate(CleanText(text))))
MenuLabelExample == "Trip Computer A/B 1234.5 mi 68321 mi"

\* C16: a trip candidate whose window, 10 characters before the start of
\* the match to 10 after its end, holds "computer", a "trip a"/"trip b"
\* token or "info" is rejected and the result has no TripReading; the menu
\* label "Trip Computer A/B 1234.5 mi 68321 mi" gives OdometerReading
\* "68321", Unit "miles" and no TripReading.
C16_MenuLabelRejected ==
    /\ (Extracted /\ TripRejected) => ~HasKey(odo_result, "TripReading")
    /\ (Extracted /\ text = MenuLabelExample) =>
          odo_result = PyDict(("OdometerReading" :> PyStr("68321"))
                                @@ ("Unit" :> PyStr("miles")))
\* a candidate with a number of its own, rejected for the "trip a" that
\* follows it, in a text whose odometer is found all the same
C16_Witness ==
    /\ Extracted /\ TripRejected
    /\ TripCandidate(CleanText(text)).g = "7"
    /\ ~HasKey(odo_result, "TripReading")
    /\ GetKey(odo_result, "OdometerReading", PyNone) = PyStr("68321")

\* the trip candidates of pattern in s that pass the menu-label filter
AcceptedTrips(s, pattern) ==
    {q \in 1..Len(s) :
        /\ PatternAt(pattern, s, q).ok
        /\ ~MenuLabelIn(WindowOf(s, PatternAt(pattern, s, q)))}
\* the first candidate of the set, in reading order
FirstOf(s, pattern, starts) ==
    PatternAt(pattern, s, CHOOSE q \in starts : \A r \in starts : q <= r).g
\* the trip value of s when the first accepted match wins
FirstAcceptedTrip(s) ==
    IF AcceptedTrips(s, "trip_before") # {}
    THEN FirstOf(s, "trip_before", AcceptedTrips(s, "trip_before"))
    ELSE IF AcceptedTrips(s, "trip_after") # {}
         THEN FirstOf(s, "trip_after", AcceptedTrips(s, "trip_after"))
         ELSE ""

\* C17: the first accepted trip match wins: when an earlier candidate is
\* rejected by the menu-label filter, the TripReading is the first later
\* candidate that passes it. (Compared after the trimming of zeros.)
C17_FirstAcceptedTripWins ==
    Extracted =>
        GetKey(odo_result, "TripReading", PyStr(""))
            = PyStr(CleanIfAny(FirstAcceptedTrip(CleanText(text))))

---------------------------------------------------------------------------
(* refine_license_fields on its own: one call per record, text and outcome *)
(* of the model call                                                       *)

\* json_data: records as normalize_text returns them, as JSON text
RefineRecordTexts ==
    {"{\"DocumentType\": \"DriverLicense\", \"LicenseNumber\": \"DL S1234567\"}",
     "{\"DocumentType\": \"Driver License - Front Side\", \"Name\": \"J\"}",
     "{\"DocumentType\": \"DRIVER LICENSE\", \"ConfidenceScore\": 0.93}",
     "{\"DocumentType\": \"driverlicense-back\", \"Items\": [\"a\"]}",
     "{\"DocumentType\": \"Title\", \"Owner\": {\"Name\": \"J\"}}",
     "{\"DocumentType\": \"Generic\", \"ConfidenceScore\": 0.0}",
     "{\"Name\": \"J\"}",
     "{\"error\": \"Text normalization failed\", \"message\": \"Connection error.\"}"}
\* raw_text
RefineTexts == {"Driver License\nDOB 01/01/1990", "DL S1234567"}
\* what the refinement call does
RefineCallOutcomes ==
    {Raises("Request timed out."),
     NoContent,
     Content("{\"LicenseNumber\": \"S1234567\"}"),
     Content(" {\"DocumentType\": \"DriverLicense\", \"LicenseNumber\": \"S1234567\"}\n"),
     Content("^^^json\n{\"LicenseNumber\": \"S1234567\"}\n^^^"),
     Content("^^^\n{\"LicenseNumber\": \"S1234567\"}"),
     Content("The license number is S1234567."),
     Content(""),
     Content("{\"LicenseNumber\": \"S1234567\"} trailing"),
     Content("[1, 2]"),
     Content("null")}

InitRefine ==
    /\ \E src \in RefineRecordTexts : license_json = json_loads(src).v
    /\ text \in RefineTexts
    /\ refine_outcome \in RefineCallOutcomes
    /\ refine_result = Unset
    /\ model_calls = <<>> /\ pc = "call"
    /\ ClassifyIdle /\ StructureIdle /\ PipelineIdle /\ CleanIdle /\ OdometerIdle

\* normalized = refine_license_fields(mapper.client, mapper.deployment,
\*                                    normalized, text, log_callback)
Refine ==
    /\ pc = "call"
    /\ \E r \in {refine_license_fields(license_json, text, refine_outcome)} :
          /\ refine_result' = r
          /\ model_calls' = r.calls
    /\ pc' = "done"
    /\ UNCHANGED <<text, license_json, refine_outcome, tree, stripped,
                   stripped_twice, odo_result, classify_vars, structure_vars,
                   pipeline_vars>>

NextRefine == Refine

SpecRefine == InitRefine /\ [][NextRefine]_vars

---------------------------------------------------------------------------
(* Claims about refine_license_fields                                      *)

\* the record's DocumentType, lower-cased and without spaces, contains
\* "driverlicense"
NamesLicense(record) ==
    Contains(Remove(Lower(GetKey(record, "DocumentType", PyStr("")).v), " "),
             "driverlicense")
\* the call raises, or yields no text, or text that is not JSON
RefineCallFails(outcome) ==
    \/ outcome.kind # "content"
    \/ ResponseUnparseable(ResponseText(outcome))
\* the call returned its input record: same keys, same values
ReturnedUnchanged == ~refine_result.raised /\ refine_result.ret = license_json

\* C18: refine_license_fields returns its input record unchanged, without
\* raising, when the record's DocumentType (lower-cased, spaces removed)
\* does not contain "driverlicense", and then makes no model call, and when
\* the model call raises or its response cannot be parsed as JSON.
C18_RefineReturnsInputOnFailure ==
    pc = "done" =>
        /\ ~NamesLicense(license_json) => ReturnedUnchanged /\ model_calls = <<>>
        /\ (NamesLicense(license_json) /\ RefineCallFails(refine_outcome)) =>
              ReturnedUnchanged
\* a license record, a call made, a response that is not JSON
C18_Witness ==
    /\ pc = "done" /\ NamesLicense(license_json)
    /\ refine_outcome = Content("The license number is S1234567.")
    /\ model_calls = <<"refine">>
    /\ ReturnedUnchanged

\* the returned reading val denotes the number of the matched digits m, and
\* is m itself when m has no decimal point
SameNumber(val, m) ==
    /\ val.t = "str" /\ val.v # ""
    /\ \A p \in 1..Len(val.v) : Ch(val.v, p) \in Digits \cup {"."}
    /\ ~FloatLess(val.v, m) /\ ~FloatLess(m, val.v)
    /\ ~Contains(m, ".") => val.v = m

\* C25: the clean-up of the values preserves the number: the returned
\* OdometerReading or TripReading denotes the same numeric value as the
\* matched digit string, so only zeros after a decimal point and a decimal
\* point then left at the end are removed, and a value without a decimal
\* point, one ending in 0 for example, is returned unchanged.
C25_CleanUpPreservesNumber ==
    Extracted =>
        /\ odo_val(CleanText(text)) # "" =>
              SameNumber(GetKey(odo_result, "OdometerReading", PyNone),
                         odo_val(CleanText(text)))
        /\ trip_val(CleanText(text)) # "" =>
              SameNumber(GetKey(odo_result, "TripReading", PyNone),
                         trip_val(CleanText(text)))

=============================================================================
